---- MODULE Spec2Model ----
(***************************************************************************)
(* Weather-station dashboard: the time-series aggregation engine of        *)
(* src/src/utils/aggregate.ts (filterRange, groupByGranularity,            *)
(* reduceMetric, buildSeries) and the label formatter of                   *)
(* src/src/utils/time.js (formatLabel).                                    *)
(*                                                                         *)
(* Conventions of the model                                                *)
(*  - A JavaScript value of a metric cell is a record [k, n, d]: k is the  *)
(*    kind ("num" a finite number n/d, "null", "undef" a missing key,      *)
(*    "nan"); finite numbers are exact rationals in lowest terms with      *)
(*    d > 0.  Rounding and overflow of IEEE doubles are not modelled: the  *)
(*    sample values are far from both.                                     *)
(*  - A Date is a record [valid, t]: t counts ticks (TicksPerDay per day)  *)
(*    since 2025-01-01T00:00 local time; an invalid Date (new Date(NaN))   *)
(*    has valid = FALSE and t = 0.  dayjs(x).valueOf() of an invalid date  *)
(*    is NaN, and every comparison with NaN is false.                      *)
(*  - The local time zone is UTC (no daylight-saving shifts).              *)
(*  - A call that would raise a TypeError returns Threw.                   *)
(*  - hook holds the state of a data hook (its React state, its refs and   *)
(*    the requests it has issued); it is NoHook where only functions are   *)
(*    called.                                                              *)
(***************************************************************************)
EXTENDS Integers, Sequences, FiniteSets, TLC

VARIABLES rows, call, ret, hook

vars == <<rows, call, ret, hook>>

(***************************************************************************)
(* Bounds of the model.                                                    *)
(***************************************************************************)
MaxRows == 3

TicksPerDay == 2

\* The calendar samples run from 2025-01-01 over this many further days.
MaxDayOfYear == 119

\* The angle samples run from -360 degrees over this many further full turns.
MaxTurns == 2

\* The requests a hook issues in one run.
MaxRequests == 3

(***************************************************************************)
(* JavaScript numbers and the other values of a metric cell.               *)
(***************************************************************************)
Abs(x) == IF x < 0 THEN -x ELSE x

RECURSIVE Gcd(_, _)
Gcd(a, b) == IF b = 0 THEN a ELSE Gcd(b, a % b)

Rat(n, d) ==
    LET g == Gcd(Abs(n), Abs(d))
        s == IF d < 0 THEN -1 ELSE 1
    IN  [k |-> "num", n |-> (s * n) \div g, d |-> (s * d) \div g]

Num(n) == [k |-> "num", n |-> n, d |-> 1]

Null == [k |-> "null", n |-> 0, d |-> 1]

Undefined == [k |-> "undef", n |-> 0, d |-> 1]

NaN == [k |-> "nan", n |-> 0, d |-> 1]

\* ToNumber of an operand of + or /: null is 0, undefined is NaN.
ToNumber(v) ==
    IF v.k = "null" THEN Num(0) ELSE IF v.k = "undef" THEN NaN ELSE v

\* a + b on numbers: NaN as soon as one operand is.
JsAdd(a, b) ==
    LET x == ToNumber(a)
        y == ToNumber(b)
    IN  IF x.k = "num" /\ y.k = "num"
        THEN Rat(x.n * y.d + y.n * x.d, x.d * y.d)
        ELSE NaN

\* a / cnt for a count cnt > 0.
JsDiv(a, cnt) ==
    LET x == ToNumber(a)
    IN  IF x.k = "num" THEN Rat(x.n, x.d * cnt) ELSE NaN

\* The test without Number.isFinite: typeof NaN is 'number' too.
IsTypeofNumber(v) == v.k \in {"num", "nan"}

\* typeof v === 'number' && Number.isFinite(v)
IsFiniteNumber(v) == v.k = "num"

(***************************************************************************)
(* Dates and dayjs.                                                        *)
(***************************************************************************)
InvalidDate == [valid |-> FALSE, t |-> 0]

At(dayOfYear, tick) == [valid |-> TRUE, t |-> dayOfYear * TicksPerDay + tick]

\* dayjs(x).valueOf() as a comparable: only meaningful when x.valid.
ValueOf(dt) == dt.t

\* t >= start, t <= end on valueOf() results; false as soon as one is NaN.
Geq(a, b) == a.valid /\ b.valid /\ ValueOf(a) >= ValueOf(b)

Leq(a, b) == a.valid /\ b.valid /\ ValueOf(a) <= ValueOf(b)

MonthLengths == <<31, 28, 31, 30, 31, 30, 31, 31, 30, 31, 30, 31>>

MonthNames ==
    <<"Jan", "Feb", "Mar", "Apr", "May", "Jun",
      "Jul", "Aug", "Sep", "Oct", "Nov", "Dec">>

DayNames == <<"Wed", "Thu", "Fri", "Sat", "Sun", "Mon", "Tue">>

RECURSIVE MonthOfDay(_, _)
\* The month (1..12) holding 0-based day-of-year doy, searching from month m.
MonthOfDay(doy, m) ==
    IF doy < MonthLengths[m] THEN m ELSE MonthOfDay(doy - MonthLengths[m], m + 1)

RECURSIVE DaysBefore(_)
DaysBefore(m) == IF m = 1 THEN 0 ELSE DaysBefore(m - 1) + MonthLengths[m - 1]

\* 2025, 2026 and 2027 are common years.
YearOf(dt) == 2025 + (dt.t \div TicksPerDay) \div 365

DoyOf(dt) == (dt.t \div TicksPerDay) % 365

MonthOf(dt) == MonthOfDay(DoyOf(dt), 1)

\* dayjs(x).date(): the day of the month, 1..31.
DateOf(dt) == DoyOf(dt) - DaysBefore(MonthOf(dt)) + 1

MinuteOfDay(dt) == ((dt.t % TicksPerDay) * 1440) \div TicksPerDay

Pad2(n) == IF n < 10 THEN "0" \o ToString(n) ELSE ToString(n)

\* String(week).padStart(2, '0')
PadStart2(s, short) == IF short THEN "0" \o s ELSE s

FormatYYYY(dt) == IF dt.valid THEN ToString(YearOf(dt)) ELSE "Invalid Date"

FormatYMD(dt) ==
    IF dt.valid
    THEN ToString(YearOf(dt)) \o "-" \o Pad2(MonthOf(dt)) \o "-" \o Pad2(DateOf(dt))
    ELSE "Invalid Date"

FormatYM(dt) ==
    IF dt.valid
    THEN ToString(YearOf(dt)) \o "-" \o Pad2(MonthOf(dt))
    ELSE "Invalid Date"

FormatHHmm(dt) ==
    Pad2(MinuteOfDay(dt) \div 60) \o ":" \o Pad2(MinuteOfDay(dt) % 60)

\* d.format('MMM D, HH:mm')
FormatMMMD(dt) ==
    IF dt.valid
    THEN MonthNames[MonthOf(dt)] \o " " \o ToString(DateOf(dt)) \o ", " \o FormatHHmm(dt)
    ELSE "Invalid Date"

\* d.toString(): the Date's toUTCString()
DayjsToString(dt) ==
    IF dt.valid
    THEN DayNames[((dt.t \div TicksPerDay) % 7) + 1] \o ", " \o Pad2(DateOf(dt))
         \o " " \o MonthNames[MonthOf(dt)] \o " " \o ToString(YearOf(dt))
         \o " " \o FormatHHmm(dt) \o ":00 GMT"
    ELSE "Invalid Date"

\* The week counted with Math.floor(d.date() / 7): 0 for days 1..6.
WeekKeyFloor(dt) ==
    IF dt.valid
    THEN LET week == DateOf(dt) \div 7
         IN  FormatYYYY(dt) \o "-W" \o PadStart2(ToString(week), week < 10)
    ELSE FormatYYYY(dt) \o "-W" \o PadStart2("NaN", FALSE)

\* `${d.format('YYYY')}-W${String(Math.ceil(d.date() / 7)).padStart(2, '0')}`
WeekKey(dt) ==
    IF dt.valid
    THEN LET week == (DateOf(dt) + 6) \div 7
         IN  FormatYYYY(dt) \o "-W" \o PadStart2(ToString(week), week < 10)
    ELSE FormatYYYY(dt) \o "-W" \o PadStart2("NaN", FALSE)

formatLabel(dt, granularity) ==
    CASE granularity = "5min" -> FormatMMMD(dt)
      [] granularity = "day" -> FormatYMD(dt)
      [] granularity = "week" -> WeekKey(dt)
      [] granularity = "month" -> FormatYM(dt)
      [] OTHER -> DayjsToString(dt)

(***************************************************************************)
(* aggregate.ts                                                            *)
(***************************************************************************)
Threw == [threw |-> TRUE, val |-> <<>>]

Returned(v) == [threw |-> FALSE, val |-> v]

\* r[metric]; a row without the key holds Undefined there.
Get(r, metric) == r[metric]

\* filterRange with the bounds excluded.
FilterRangeExclusive(rs, range) ==
    SelectSeq(rs, LAMBDA r :
        /\ r.dt.valid /\ range.start.valid /\ range.end.valid
        /\ ValueOf(r.dt) > ValueOf(range.start)
        /\ ValueOf(r.dt) < ValueOf(range.end))

\* filterRange written as "not outside": !(t < start || t > end), which an
\* invalid timestamp passes.
FilterRangeNotOutside(rs, range) ==
    SelectSeq(rs, LAMBDA r :
        ~(\/ (r.dt.valid /\ range.start.valid /\ ValueOf(r.dt) < ValueOf(range.start))
          \/ (r.dt.valid /\ range.end.valid /\ ValueOf(r.dt) > ValueOf(range.end))))

filterRange(rs, range) ==
    SelectSeq(rs, LAMBDA r : Geq(r.dt, range.start) /\ Leq(r.dt, range.end))

\* The filter of average and sum letting null through as 0: v == null ? 0 : v.
NullAsZero(values) ==
    SelectSeq([i \in 1..Len(values) |->
                  IF values[i].k = "null" THEN Num(0) ELSE values[i]],
              IsFiniteNumber)

\* values.filter((v) => typeof v === 'number' && Number.isFinite(v))
FiniteOnly(values) == SelectSeq(values, IsFiniteNumber)

RECURSIVE ReduceAdd(_)
\* nums.reduce((a, b) => a + b, 0)
ReduceAdd(nums) ==
    IF Len(nums) = 0 THEN Num(0)
    ELSE JsAdd(ReduceAdd(SubSeq(nums, 1, Len(nums) - 1)), nums[Len(nums)])

average(values) ==
    LET nums == FiniteOnly(values)
    IN  IF Len(nums) = 0 THEN Num(0) ELSE JsDiv(ReduceAdd(nums), Len(nums))

sum(values) ==
    LET nums == FiniteOnly(values)
    IN  IF Len(nums) = 0 THEN Num(0) ELSE ReduceAdd(nums)

\* A bucket key: the Date itself in raw mode, a string in the grouped modes.
DateKey(dt) == [isString |-> FALSE, str |-> "", date |-> dt]

StringKey(s) == [isString |-> TRUE, str |-> s, date |-> InvalidDate]

\* Daily keys that keep the time of day: d.format('YYYY-MM-DD HH:mm').
BucketKeyPerInstant(dt, mode) ==
    IF mode = "daily"
    THEN (IF dt.valid THEN FormatYMD(dt) \o " " \o FormatHHmm(dt) ELSE "Invalid Date")
    ELSE IF mode = "weekly" THEN WeekKey(dt)
    ELSE FormatYM(dt)

\* Weekly keys that carry the month: `${d.format('YYYY-MM')}-W${...}`.
BucketKeyWeekOfEachMonth(dt, mode) ==
    IF mode = "daily" THEN FormatYMD(dt)
    ELSE IF mode = "weekly"
    THEN (IF dt.valid
          THEN FormatYM(dt) \o "-W0" \o ToString((DateOf(dt) + 6) \div 7)
          ELSE WeekKey(dt))
    ELSE FormatYM(dt)

BucketKey(dt, mode) ==
    IF mode = "daily" THEN FormatYMD(dt)
    ELSE IF mode = "weekly" THEN WeekKey(dt)
    ELSE FormatYM(dt)

\* The Map update that creates a bucket without its first reading:
\* if (!buckets.has(key)) buckets.set(key, []); else buckets.get(key).push(r);
MapPushDroppingFirst(buckets, key, r) ==
    IF \E i \in 1..Len(buckets) : buckets[i].key = key
    THEN [i \in 1..Len(buckets) |->
            IF buckets[i].key = key
            THEN [key |-> key, rows |-> Append(buckets[i].rows, r)]
            ELSE buckets[i]]
    ELSE Append(buckets, [key |-> key, rows |-> <<>>])

\* The Map update putting a reading at the head of its bucket:
\* arr.unshift(r) for arr.push(r).
MapUnshift(buckets, key, r) ==
    IF \E i \in 1..Len(buckets) : buckets[i].key = key
    THEN [i \in 1..Len(buckets) |->
            IF buckets[i].key = key
            THEN [key |-> key, rows |-> <<r>> \o buckets[i].rows]
            ELSE buckets[i]]
    ELSE Append(buckets, [key |-> key, rows |-> <<r>>])

\* const arr = buckets.get(key) || []; arr.push(r); buckets.set(key, arr);
\* the Map keeps its keys in the order of their first insertion.
MapPush(buckets, key, r) ==
    IF \E i \in 1..Len(buckets) : buckets[i].key = key
    THEN [i \in 1..Len(buckets) |->
            IF buckets[i].key = key
            THEN [key |-> key, rows |-> Append(buckets[i].rows, r)]
            ELSE buckets[i]]
    ELSE Append(buckets, [key |-> key, rows |-> <<r>>])

RECURSIVE GroupLoop(_, _, _)
\* for (const r of rows) { ... } over rs[i..], with the Map built so far.
GroupLoop(rs, mode, i) ==
    IF i = 0 THEN <<>>
    ELSE MapPush(GroupLoop(rs, mode, i - 1), StringKey(BucketKey(rs[i].dt, mode)), rs[i])

RECURSIVE MergeInstants(_, _)
\* Raw buckets keyed by the instant: readings of one instant share a bucket.
MergeInstants(rs, i) ==
    IF i = 0 THEN <<>>
    ELSE MapPush(MergeInstants(rs, i - 1), DateKey(rs[i].dt), rs[i])

\* groupByGranularity merging the readings of one instant in raw mode.
GroupByGranularityMergingInstants(rs, mode) ==
    IF mode = "raw"
    THEN MergeInstants(rs, Len(rs))
    ELSE GroupLoop(rs, mode, Len(rs))

groupByGranularity(rs, mode) ==
    IF mode = "raw"
    THEN [i \in 1..Len(rs) |-> [key |-> DateKey(rs[i].dt), rows |-> <<rs[i]>>]]
    ELSE GroupLoop(rs, mode, Len(rs))

reduceMetric(rs, metric, reducer) ==
    LET values == [i \in 1..Len(rs) |-> Get(rs[i], metric)]
    IN  IF reducer = "sum" THEN sum(values) ELSE average(values)

(***************************************************************************)
(* Array.prototype.sort with the comparator                                *)
(*   (a, b) => dayjs(a.rows[0].dt).valueOf() - dayjs(b.rows[0].dt).valueOf()*)
(* A NaN result counts as +0.  With a consistent comparator the sort is    *)
(* stable and its result unique; with an inconsistent one (an invalid      *)
(* first timestamp among distinct valid ones) the order is                 *)
(* implementation-defined: any permutation.                                *)
(***************************************************************************)
\* The comparator reading the last member of each bucket:
\* dayjs(a.rows[a.rows.length - 1].dt).valueOf() - ...
CompareByLast(a, b) ==
    IF a.rows[Len(a.rows)].dt.valid /\ b.rows[Len(b.rows)].dt.valid
    THEN ValueOf(a.rows[Len(a.rows)].dt) - ValueOf(b.rows[Len(b.rows)].dt)
    ELSE 0

Compare(a, b) ==
    IF a.rows[1].dt.valid /\ b.rows[1].dt.valid
    THEN ValueOf(a.rows[1].dt) - ValueOf(b.rows[1].dt)
    ELSE 0

ConsistentComparator(bs) ==
    \A i, j, k \in 1..Len(bs) :
        (Compare(bs[i], bs[j]) = 0 /\ Compare(bs[j], bs[k]) = 0)
            => Compare(bs[i], bs[k]) = 0

\* An insertion that is not stable: b placed before the first element of
\* sorted that compares greater than or equal to b.
InsertSortedBeforeEqual(sorted, b) ==
    LET later == {i \in 1..Len(sorted) : Compare(sorted[i], b) >= 0}
        pos == IF later = {} THEN Len(sorted) + 1
               ELSE CHOOSE i \in later : \A j \in later : i <= j
    IN  SubSeq(sorted, 1, pos - 1) \o <<b>> \o SubSeq(sorted, pos, Len(sorted))

\* b placed before the first element of sorted that compares greater than b.
InsertSorted(sorted, b) ==
    LET later == {i \in 1..Len(sorted) : Compare(sorted[i], b) > 0}
        pos == IF later = {} THEN Len(sorted) + 1
               ELSE CHOOSE i \in later : \A j \in later : i <= j
    IN  SubSeq(sorted, 1, pos - 1) \o <<b>> \o SubSeq(sorted, pos, Len(sorted))

RECURSIVE StableSort(_, _)
StableSort(bs, i) ==
    IF i = 0 THEN <<>> ELSE InsertSorted(StableSort(bs, i - 1), bs[i])

AllOrders(bs) ==
    LET n == Len(bs)
        perms == {p \in [1..n -> 1..n] : \A i, j \in 1..n : p[i] = p[j] => i = j}
    IN  {[i \in 1..n |-> bs[p[i]]] : p \in perms}

\* buildSeries without its sort: the buckets in the order of the Map.
Unsorted(bs) == {bs}

SortOutcomes(bs) ==
    IF ConsistentComparator(bs) THEN {StableSort(bs, Len(bs))} ELSE AllOrders(bs)

\* buildSeries formatting every label from the representative reading,
\* whatever the type of the key.
SeriesOfFormattedLabels(buckets, labelGranularity, metric, reducer) ==
    LET labels == [i \in 1..Len(buckets) |->
                    LET b == buckets[i]
                        representative == b.rows[(Len(b.rows) \div 2) + 1].dt
                    IN  formatLabel(representative, labelGranularity)]
        series == [i \in 1..Len(buckets) |-> reduceMetric(buckets[i].rows, metric, reducer)]
    IN  [labels |-> labels, series |-> series, avg |-> average(series)]

\* buildSeries averaging the raw readings instead of the bucket values.
SeriesOfRawAverage(buckets, labelGranularity, metric, reducer) ==
    LET labels == [i \in 1..Len(buckets) |->
                    LET b == buckets[i]
                        representative == b.rows[(Len(b.rows) \div 2) + 1].dt
                    IN  IF b.key.isString THEN b.key.str
                        ELSE formatLabel(representative, labelGranularity)]
        series == [i \in 1..Len(buckets) |-> reduceMetric(buckets[i].rows, metric, reducer)]
        RECURSIVE Flat(_)
        Flat(i) == IF i = 0 THEN <<>> ELSE Flat(i - 1) \o buckets[i].rows
    IN  [labels |-> labels, series |-> series,
         avg |-> reduceMetric(Flat(Len(buckets)), metric, "avg")]

\* buildSeries pushing a series entry only when it is truthy: if (value) push.
SeriesOfDroppingZero(buckets, labelGranularity, metric, reducer) ==
    LET labels == [i \in 1..Len(buckets) |->
                    LET b == buckets[i]
                        representative == b.rows[(Len(b.rows) \div 2) + 1].dt
                    IN  IF b.key.isString THEN b.key.str
                        ELSE formatLabel(representative, labelGranularity)]
        series == SelectSeq(
                    [i \in 1..Len(buckets) |->
                        reduceMetric(buckets[i].rows, metric, reducer)],
                    LAMBDA v : v # Num(0))
    IN  [labels |-> labels, series |-> series, avg |-> average(series)]

\* The loop of buildSeries over the sorted buckets, and the final average.
SeriesOf(buckets, labelGranularity, metric, reducer) ==
    LET labels == [i \in 1..Len(buckets) |->
                    LET b == buckets[i]
                        representative == b.rows[(Len(b.rows) \div 2) + 1].dt
                    IN  IF b.key.isString THEN b.key.str
                        ELSE formatLabel(representative, labelGranularity)]
        series == [i \in 1..Len(buckets) |-> reduceMetric(buckets[i].rows, metric, reducer)]
    IN  [labels |-> labels, series |-> series, avg |-> average(series)]

\* Every result buildSeries can return: one per outcome of the sort.  Reading
\* rows[0] or rows[floor(n/2)] of an empty bucket is a TypeError.
buildSeries(rs, labelGranularity, bucketMode, metric, reducer) ==
    LET buckets == groupByGranularity(rs, bucketMode)
    IN  IF \E i \in 1..Len(buckets) : Len(buckets[i].rows) = 0
        THEN {Threw}
        ELSE {Returned(SeriesOf(s, labelGranularity, metric, reducer)) :
                s \in SortOutcomes(buckets)}

(***************************************************************************)
(* The inputs: the caller's list of readings and the arguments of a call.  *)
(***************************************************************************)
Jun10 == At(160, 0)

Jul1 == At(181, 0)

Jul1Later == At(181, 1)

Jul2 == At(182, 0)

\* The instants a reading or a bound of a range can carry.
DateSamples == {Jun10, Jul1, Jul1Later, Jul2, InvalidDate}

Reading(dt, temperature, rainfall) ==
    [dt |-> dt, temperature_c |-> temperature, rainfall_mm |-> rainfall]

\* Readings with parsed timestamps: three calendar days (two instants on
\* 2025-07-01), temperatures finite or unusable (NaN, null), rainfall finite
\* or missing (undefined).
Readings ==
    { Reading(Jun10, NaN, Undefined),
      Reading(Jul1, Num(20), Num(1)),
      Reading(Jul1Later, Num(30), Undefined),
      Reading(Jul1Later, Null, Num(2)),
      Reading(Jul2, Num(10), Num(4)) }

\* Readings of a damaged file: one whose timestamp did not parse (parseDT's
\* new Date(NaN)) among readings with unusable values.
DamagedReadings ==
    { Reading(InvalidDate, Num(10), Null),
      Reading(Jun10, NaN, Undefined),
      Reading(Jul1, Num(20), Num(1)),
      Reading(Jul1Later, Null, Num(2)) }

ListsOver(S) == UNION {[1..n -> S] : n \in 0..MaxRows}

RowLists == ListsOver(Readings) \cup ListsOver(DamagedReadings)

Granularities == {"5min", "day", "week", "month"}

BucketModes == {"raw", "daily", "weekly", "monthly"}

Reducers == {"avg", "sum"}

Metrics == {"temperature_c", "rainfall_mm"}

\* A token outside the closed enumerations, as an untyped caller can pass it.
UnknownTokens == {"hourly"}

NoCall == [fn |-> "none"]

\* No hook is mounted.
NoHook == [kind |-> "none"]

Init ==
    /\ rows \in RowLists
    /\ call = NoCall
    /\ ret = Returned(<<>>)
    /\ hook = NoHook

CallFilterRange ==
    /\ call = NoCall
    /\ \E start \in DateSamples, end \in DateSamples :
        /\ call' = [fn |-> "filterRange", start |-> start, end |-> end]
        /\ ret' = Returned(filterRange(rows, [start |-> start, end |-> end]))
    /\ UNCHANGED <<rows, hook>>

GroupByGranularityWith(modes) ==
    /\ call = NoCall
    /\ \E mode \in modes :
        /\ call' = [fn |-> "groupByGranularity", mode |-> mode]
        /\ ret' = Returned(groupByGranularity(rows, mode))
    /\ UNCHANGED <<rows, hook>>

ReduceMetricWith(reducers) ==
    /\ call = NoCall
    /\ \E metric \in Metrics, reducer \in reducers :
        /\ call' = [fn |-> "reduceMetric", metric |-> metric, reducer |-> reducer]
        /\ ret' = Returned(reduceMetric(rows, metric, reducer))
    /\ UNCHANGED <<rows, hook>>

\* buildSeries sorting the caller's list itself (rows.sort(...)) before it
\* groups.
BuildSeriesSortingRows(granularities, modes, reducers) ==
    /\ call = NoCall
    /\ \E labelGranularity \in granularities, bucketMode \in modes,
          metric \in Metrics, reducer \in reducers :
        /\ call' = [fn |-> "buildSeries", labelGranularity |-> labelGranularity,
                    bucketMode |-> bucketMode, metric |-> metric, reducer |-> reducer]
        /\ ret' \in buildSeries(rows, labelGranularity, bucketMode, metric, reducer)
    /\ \E sorted \in SortOutcomes(groupByGranularity(rows, "raw")) :
        rows' = [i \in 1..Len(sorted) |-> sorted[i].rows[1]]
    /\ UNCHANGED hook

BuildSeriesWith(granularities, modes, reducers) ==
    /\ call = NoCall
    /\ \E labelGranularity \in granularities, bucketMode \in modes,
          metric \in Metrics, reducer \in reducers :
        /\ call' = [fn |-> "buildSeries", labelGranularity |-> labelGranularity,
                    bucketMode |-> bucketMode, metric |-> metric, reducer |-> reducer]
        /\ ret' \in buildSeries(rows, labelGranularity, bucketMode, metric, reducer)
    /\ UNCHANGED <<rows, hook>>

CallGroupByGranularity == GroupByGranularityWith(BucketModes)

CallReduceMetric == ReduceMetricWith(Reducers)

CallBuildSeries == BuildSeriesWith(Granularities, BucketModes, Reducers)

\* The caller takes the result; the next call starts from the same list.
Return ==
    /\ call # NoCall
    /\ call' = NoCall
    /\ ret' = Returned(<<>>)
    /\ UNCHANGED <<rows, hook>>

Next ==
    \/ CallFilterRange
    \/ CallGroupByGranularity
    \/ CallReduceMetric
    \/ CallBuildSeries
    \/ Return

Spec == Init /\ [][Next]_vars

(***************************************************************************)
(* The same calls from an untyped caller (the JavaScript build, or a       *)
(* string that reached the call unchecked): tokens outside the closed      *)
(* enumerations can be passed.                                             *)
(***************************************************************************)
UntypedGroupByGranularity == GroupByGranularityWith(BucketModes \cup UnknownTokens)

UntypedReduceMetric == ReduceMetricWith(Reducers \cup UnknownTokens)

UntypedBuildSeries ==
    BuildSeriesWith(Granularities \cup UnknownTokens, BucketModes \cup UnknownTokens,
                    Reducers \cup UnknownTokens)

NextUntyped ==
    \/ CallFilterRange
    \/ UntypedGroupByGranularity
    \/ UntypedReduceMetric
    \/ UntypedBuildSeries
    \/ Return

SpecUntyped == Init /\ [][NextUntyped]_vars

(***************************************************************************)
(* Vocabulary of the properties.                                           *)
(***************************************************************************)
Range(f) == {f[i] : i \in DOMAIN f}

\* The k-th smallest element of a finite set of integers.
KthOf(S, k) == CHOOSE i \in S : Cardinality({j \in S : j < i}) = k - 1

\* The label buildSeries owes a bucket: its key when the key is a string,
\* the formatted timestamp of its middle member otherwise.
LabelOwed(b, labelGranularity) ==
    IF b.key.isString THEN b.key.str
    ELSE formatLabel(b.rows[(Len(b.rows) \div 2) + 1].dt, labelGranularity)

(***************************************************************************)
(* C1.  For every list of readings, the empty one included, every bucket   *)
(* mode, label granularity, metric and reducer, buildSeries returns labels *)
(* and series of equal length, and position i of both comes from the same  *)
(* bucket: the pairs (labels[i], series[i]) are, with multiplicity, the    *)
(* pairs (label, reduced value) of the buckets of the input.               *)
(***************************************************************************)
C1_LabelsSeriesPaired ==
    call.fn = "buildSeries" =>
        /\ ~ret.threw
        /\ Len(ret.val.labels) = Len(ret.val.series)
        /\ LET bs == groupByGranularity(rows, call.bucketMode)
               n == Len(bs)
               owed == [i \in 1..n |->
                          <<LabelOwed(bs[i], call.labelGranularity),
                            reduceMetric(bs[i].rows, call.metric, call.reducer)>>]
               got == [i \in 1..Len(ret.val.labels) |->
                          <<ret.val.labels[i], ret.val.series[i]>>]
           IN  /\ Len(ret.val.labels) = n
               /\ \A x \in Range(owed) \cup Range(got) :
                    Cardinality({i \in 1..n : owed[i] = x})
                        = Cardinality({i \in 1..n : got[i] = x})

\* buildSeries returned two buckets, one of them reduced to 0; and it
\* returned for the empty list too (checked by the invariant itself).
C1_Witness ==
    /\ call.fn = "buildSeries"
    /\ call.bucketMode = "daily"
    /\ ~ret.threw
    /\ Len(ret.val.labels) = 2
    /\ ret.val.series[1] = Num(0)
    /\ ret.val.series[2] # Num(0)

(***************************************************************************)
(* C2.  filterRange(readings, {start, end}) returns exactly the readings   *)
(* with start <= timestamp <= end, in their original relative order: a     *)
(* reading at start or at end is in, a reading one tick outside is out.    *)
(***************************************************************************)
InWindow(r, start, end) ==
    /\ r.dt.valid /\ start.valid /\ end.valid
    /\ start.t <= r.dt.t
    /\ r.dt.t <= end.t

C2_FilterRangeInclusive ==
    call.fn = "filterRange" =>
        LET kept == {i \in 1..Len(rows) : InWindow(rows[i], call.start, call.end)}
        IN  /\ ~ret.threw
            /\ Len(ret.val) = Cardinality(kept)
            /\ \A k \in 1..Len(ret.val) : ret.val[k] = rows[KthOf(kept, k)]

\* The window is the single tick of Jul1Later; the list holds a reading one
\* tick before it, one at it and one tick after it; only the middle one is kept.
C2_Witness ==
    /\ call.fn = "filterRange"
    /\ call.start = Jul1Later /\ call.end = Jul1Later
    /\ Len(rows) = 3
    /\ rows[2].dt = Jul1Later
    /\ rows[1].dt.valid /\ rows[1].dt.t = Jul1Later.t - 1
    /\ rows[3].dt.valid /\ rows[3].dt.t = Jul1Later.t + 1
    /\ ret.val = <<rows[2]>>

(***************************************************************************)
(* C3.  filterRange returns the empty list whenever start > end (no swap   *)
(* of the bounds), never returns a reading whose timestamp is invalid,     *)
(* and raises no error.                                                    *)
(***************************************************************************)
C3_FilterRangeEmptyAndValid ==
    call.fn = "filterRange" =>
        /\ ~ret.threw
        /\ (call.start.valid /\ call.end.valid /\ call.start.t > call.end.t)
              => ret.val = <<>>
        /\ \A k \in 1..Len(ret.val) : ret.val[k].dt.valid

\* start > end around a reading that lies between them, next to a reading
\* with an invalid timestamp: nothing is returned.
C3_Witness ==
    /\ call.fn = "filterRange"
    /\ call.start = Jul2 /\ call.end = Jun10
    /\ \E i, j \in 1..Len(rows) : rows[i].dt = Jul1 /\ ~rows[j].dt.valid
    /\ ret = Returned(<<>>)

(***************************************************************************)
(* C4.  reduceMetric ignores every reading whose value for the metric is   *)
(* null, missing or not finite (excluded, not counted as 0) and returns    *)
(* the arithmetic mean ('avg') or sum ('sum') of the remaining values;     *)
(* with no value left, the empty list included, it returns 0.              *)
(* The sample values are whole numbers, so the sum is an integer.          *)
(***************************************************************************)
FiniteAt(rs, metric) == {i \in 1..Len(rs) : rs[i][metric].k = "num"}

RECURSIVE TotalAt(_, _, _)
TotalAt(rs, metric, S) ==
    IF S = {} THEN 0
    ELSE LET i == CHOOSE i \in S : TRUE
         IN  rs[i][metric].n + TotalAt(rs, metric, S \ {i})

\* v is the mean of the finite values of the metric over rs[i], i in S
\* (0 when none is finite).
IsMeanOf(v, rs, metric, S) ==
    LET F == FiniteAt(rs, metric) \cap S
    IN  /\ v.k = "num" /\ v.d > 0
        /\ (F = {}) => v = Num(0)
        /\ (F # {}) => v.n * Cardinality(F) = TotalAt(rs, metric, F) * v.d

IsSumOf(v, rs, metric, S) ==
    LET F == FiniteAt(rs, metric) \cap S
    IN  /\ v.k = "num" /\ v.d > 0
        /\ v.n = TotalAt(rs, metric, F) * v.d

C4_ReduceMetricIgnoresInvalid ==
    call.fn = "reduceMetric" =>
        /\ ~ret.threw
        /\ (call.reducer = "avg")
              => IsMeanOf(ret.val, rows, call.metric, 1..Len(rows))
        /\ (call.reducer = "sum")
              => IsSumOf(ret.val, rows, call.metric, 1..Len(rows))

\* reduceMetric([{v:10},{v:20},{v:null}], 'avg') = 15
C4_Witness ==
    /\ call.fn = "reduceMetric"
    /\ call.metric = "temperature_c" /\ call.reducer = "avg"
    /\ Len(rows) = 3
    /\ rows[1].temperature_c = Num(10)
    /\ rows[2].temperature_c = Num(20)
    /\ rows[3].temperature_c = Null
    /\ ret = Returned(Num(15))

(***************************************************************************)
(* C5.  With bucketMode 'daily' and reducer 'avg', buildSeries yields one  *)
(* bucket per distinct calendar day present in the input: exactly one      *)
(* position i carries that day's YYYY-MM-DD string as labels[i], and       *)
(* series[i] is the mean of the finite metric values of the readings of    *)
(* that day.  (A reading whose timestamp is invalid lies on no calendar    *)
(* day; such readings share one further bucket, and there is no other.)    *)
(***************************************************************************)
DayIndex(dt) == dt.t \div TicksPerDay

DaysPresent(rs) == {DayIndex(rs[i].dt) : i \in {j \in 1..Len(rs) : rs[j].dt.valid}}

OnDay(rs, d) == {i \in 1..Len(rs) : rs[i].dt.valid /\ DayIndex(rs[i].dt) = d}

DayString(d) == FormatYMD([valid |-> TRUE, t |-> d * TicksPerDay])

C5_DailyAverage ==
    (call.fn = "buildSeries" /\ call.bucketMode = "daily" /\ call.reducer = "avg") =>
        /\ ~ret.threw
        /\ Len(ret.val.labels) =
              Cardinality(DaysPresent(rows))
                + (IF \E i \in 1..Len(rows) : ~rows[i].dt.valid THEN 1 ELSE 0)
        /\ \A d \in DaysPresent(rows) :
              LET at == {i \in 1..Len(ret.val.labels) : ret.val.labels[i] = DayString(d)}
              IN  /\ Cardinality(at) = 1
                  /\ \A i \in at :
                        IsMeanOf(ret.val.series[i], rows, call.metric, OnDay(rows, d))

\* Readings 20 and 30 on 2025-07-01 and 10 on 2025-07-02.
C5_Witness ==
    /\ call.fn = "buildSeries"
    /\ call.bucketMode = "daily" /\ call.reducer = "avg"
    /\ call.metric = "temperature_c"
    /\ rows = << Reading(Jul1, Num(20), Num(1)),
                 Reading(Jul1Later, Num(30), Undefined),
                 Reading(Jul2, Num(10), Num(4)) >>
    /\ ret.val.labels = <<"2025-07-01", "2025-07-02">>
    /\ ret.val.series = <<Num(25), Num(10)>>
    /\ ret.val.avg = [k |-> "num", n |-> 35, d |-> 2]

(***************************************************************************)
(* C6.  With bucketMode 'daily' and readings that all have valid           *)
(* timestamps, the labels come back strictly ascending by date for every   *)
(* ordering of the input, and the labels and the readings reduced under    *)
(* each label do not depend on that ordering: labels[i] is the i-th        *)
(* earliest day present, and the bucket under it holds, with multiplicity, *)
(* the readings of that day.  Both are functions of the bag of readings,   *)
(* and every ordering of every list is an input of the model.              *)
(***************************************************************************)
AllValid(rs) == \A i \in 1..Len(rs) : rs[i].dt.valid

\* How many times r occurs in rs.
Count(rs, r) == Cardinality({j \in 1..Len(rs) : rs[j] = r})

C6_DailyLabelsAscending ==
    (call.fn = "buildSeries" /\ call.bucketMode = "daily" /\ AllValid(rows)) =>
        /\ ~ret.threw
        /\ Len(ret.val.labels) = Cardinality(DaysPresent(rows))
        /\ \A i \in 1..Len(ret.val.labels) :
              ret.val.labels[i] = DayString(KthOf(DaysPresent(rows), i))
        /\ LET bs == groupByGranularity(rows, "daily")
           IN  \A d \in DaysPresent(rows) :
                  \E b \in Range(bs) :
                      /\ b.key.str = DayString(d)
                      /\ Len(b.rows) = Cardinality(OnDay(rows, d))
                      /\ \A i \in OnDay(rows, d) :
                            Count(b.rows, rows[i]) = Cardinality(
                                {j \in OnDay(rows, d) : rows[j] = rows[i]})

\* Three distinct days given latest first.
C6_Witness ==
    /\ call.fn = "buildSeries"
    /\ call.bucketMode = "daily"
    /\ Len(rows) = 3
    /\ rows[1].dt = Jul2 /\ rows[2].dt = Jul1 /\ rows[3].dt = Jun10
    /\ ret.val.labels = <<"2025-06-10", "2025-07-01", "2025-07-02">>

(***************************************************************************)
(* C7.  The avg returned by buildSeries is the arithmetic mean of all      *)
(* entries of the returned series (bucket values, the 0 of a bucket        *)
(* without a valid value included), and 0 when there is no bucket.         *)
(***************************************************************************)
RECURSIVE DenProduct(_, _)
DenProduct(xs, i) == IF i = 0 THEN 1 ELSE xs[i].d * DenProduct(xs, i - 1)

RECURSIVE NumSum(_, _)
\* The numerator of the sum of xs[1..i] over the denominator DenProduct(xs, Len(xs)).
NumSum(xs, i) ==
    IF i = 0 THEN 0
    ELSE xs[i].n * (DenProduct(xs, Len(xs)) \div xs[i].d) + NumSum(xs, i - 1)

C7_AvgIsMeanOfSeries ==
    call.fn = "buildSeries" =>
        LET xs == ret.val.series
            n == Len(xs)
        IN  /\ ~ret.threw
            /\ ret.val.avg.k = "num" /\ ret.val.avg.d > 0
            /\ (n = 0) => ret.val.avg = Num(0)
            /\ (n > 0) =>
                  /\ \A i \in 1..n : xs[i].k = "num" /\ xs[i].d > 0
                  /\ ret.val.avg.n * n * DenProduct(xs, n) = NumSum(xs, n) * ret.val.avg.d

\* A day without a valid value (series entry 0) and a day with 20 and 30:
\* avg is (0 + 25) / 2, not the mean 25 of the raw readings.
C7_Witness ==
    /\ call.fn = "buildSeries"
    /\ call.bucketMode = "daily" /\ call.reducer = "avg"
    /\ ret.val.series = <<Num(0), Num(25)>>
    /\ ret.val.avg = [k |-> "num", n |-> 25, d |-> 2]

C9_NeverThrows ==
    call.fn \in {"buildSeries", "groupByGranularity", "reduceMetric", "filterRange"}
        => ~ret.threw

\* buildSeries returned for a list with an invalid timestamp and unusable values.
C9_Witness ==
    /\ call.fn = "buildSeries"
    /\ call.bucketMode = "weekly"
    /\ \E i, j \in 1..Len(rows) :
          /\ ~rows[i].dt.valid
          /\ rows[j].temperature_c = NaN /\ rows[j].rainfall_mm = Undefined
    /\ ~ret.threw
    /\ Len(ret.val.labels) = 2

(***************************************************************************)
(* C10.  A bucketMode, labelGranularity or reducer token outside the       *)
(* closed enumerations is rejected at the API boundary, not silently       *)
(* treated as some default mode or reducer.                                *)
(***************************************************************************)
HasUnknownToken(c) ==
    \/ c.fn = "groupByGranularity" /\ c.mode \notin BucketModes
    \/ c.fn = "reduceMetric" /\ c.reducer \notin Reducers
    \/ /\ c.fn = "buildSeries"
       /\ \/ c.bucketMode \notin BucketModes
          \/ c.labelGranularity \notin Granularities
          \/ c.reducer \notin Reducers

C10_UnknownTokenRejected == HasUnknownToken(call) => ret.threw

(***************************************************************************)
(* The pages and hooks that call buildSeries.                              *)
(*   LiveChartPage.jsx chartData, the two StationPage variants of          *)
(*   unnamed/part_023 (one ChartPanel per enabled chart, each evaluating   *)
(*   buildSeries for avgValue and again for data), and the two             *)
(*   useStationArchive hooks of unnamed/part_004.                          *)
(* A reading of the model carries two cells; a panel fed by a rainfall     *)
(* column reads the rainfall cell, every other panel the temperature cell. *)
(***************************************************************************)
RainfallColumns == {"rainfall_mm", "RainRate(mm/hr)", "RainDay(mm)"}

Cell(column) == IF column \in RainfallColumns THEN "rainfall_mm" ELSE "temperature_c"

\* rows.map(r => ({ dt: r.dt, [metric]: r[column] }))
ProjectRows(rs, column, metric) ==
    [i \in 1..Len(rs) |-> ("dt" :> rs[i].dt) @@ (metric :> rs[i][Cell(column)])]

BuildSeriesCall(line, column, labelGranularity, mode, metric, reducer) ==
    [line |-> line, column |-> column, labelGranularity |-> labelGranularity,
     bucketMode |-> mode, metric |-> metric, reducer |-> reducer]

\* part_004: bucketMode(granularity) and granularityLabel(granularity)
bucketMode(granularity) ==
    IF granularity \in {"daily", "weekly", "monthly"} THEN granularity ELSE "raw"

granularityLabel(granularity) ==
    CASE granularity = "daily" -> "day"
      [] granularity = "weekly" -> "week"
      [] granularity = "monthly" -> "month"
      [] OTHER -> "5min"

\* The granularity option of useStationArchive.
HookGranularities == {"daily", "weekly", "monthly", "raw"}

\* LiveChartPage.jsx:92-96
LiveChartCalls ==
    << BuildSeriesCall(92, "temperature_c", "5min", "raw", "temperature_c", "avg"),
       BuildSeriesCall(93, "humidity_pct", "5min", "raw", "humidity_pct", "avg"),
       BuildSeriesCall(94, "rainfall_mm", "5min", "raw", "rainfall_mm", "sum"),
       BuildSeriesCall(95, "pressure_hpa", "5min", "raw", "pressure_hpa", "avg"),
       BuildSeriesCall(96, "windspeed_ms", "5min", "raw", "windspeed_ms", "avg") >>

\* A ChartPanel: the same call for avgValue and for data.
PanelCalls(line, column, metric, reducer) ==
    << BuildSeriesCall(line, column, "day", "daily", metric, reducer),
       BuildSeriesCall(line + 1, column, "day", "daily", metric, reducer) >>

\* part_023:194-215, the StationPage fed by the database.
StationPanels ==
    { PanelCalls(194, "temperature_c", "temperature_c", "avg"),
      PanelCalls(199, "rainfall_mm", "rainfall_mm", "sum"),
      PanelCalls(204, "humidity_pct", "humidity_pct", "avg"),
      PanelCalls(209, "pressure_hpa", "pressure_hpa", "avg"),
      PanelCalls(214, "windspeed_ms", "windspeed_ms", "avg") }

\* part_023:393-429, the StationPage fed by the archive file.
ArchivePanels ==
    { PanelCalls(393, "Barometer(hPa)", "pressure_hpa", "avg"),
      PanelCalls(398, "WindSpeed(m/s)", "windspeed_ms", "avg"),
      PanelCalls(403, "visibility_km", "visibility_km", "avg"),
      PanelCalls(413, "TempIn(C)", "temperature_c", "avg"),
      PanelCalls(418, "HumIn", "humidity_pct", "avg"),
      PanelCalls(423, "RainDay(mm)", "rainfall_mm", "avg"),
      PanelCalls(428, "SolarRad", "visibility_km", "avg") }

\* part_004:85-87 (columns of the station file) and 184-186 (named columns).
HookCalls(first, columns, granularity) ==
    << BuildSeriesCall(first, columns[1], granularityLabel(granularity),
                       bucketMode(granularity), "temperature_c", "avg"),
       BuildSeriesCall(first + 1, columns[2], granularityLabel(granularity),
                       bucketMode(granularity), "rainfall_mm", "sum"),
       BuildSeriesCall(first + 2, columns[3], granularityLabel(granularity),
                       bucketMode(granularity), "humidity_pct", "avg") >>

RECURSIVE ResultsOf(_, _, _)
\* Every sequence of results the calls cs[1..i] can return on rs.
ResultsOf(rs, cs, i) ==
    IF i = 0 THEN {<<>>}
    ELSE {Append(before, r.val) :
            before \in ResultsOf(rs, cs, i - 1),
            r \in buildSeries(ProjectRows(rs, cs[i].column, cs[i].metric),
                              cs[i].labelGranularity, cs[i].bucketMode,
                              cs[i].metric, cs[i].reducer)}

\* The site evaluates the calls cs on rs.
Evaluate(site, rs, cs) ==
    /\ call = NoCall
    /\ call' = [fn |-> "render", site |-> site, calls |-> cs]
    /\ \E results \in ResultsOf(rs, cs, Len(cs)) : ret' = Returned(results)
    /\ UNCHANGED <<rows, hook>>

\* if (!seriesData || seriesData.length === 0) return null;
LiveChartData ==
    Evaluate("LiveChartPage.chartData", rows,
             IF Len(rows) = 0 THEN <<>> ELSE LiveChartCalls)

StationPagePanel ==
    \E panel \in StationPanels : Evaluate("StationPage", rows, panel)

ArchiveStationPagePanel ==
    \E panel \in ArchivePanels : Evaluate("StationPage (archive)", rows, panel)

\* The window of the time filter, or none.
HookRanges ==
    { [given |-> TRUE, start |-> Jul1, end |-> Jul2],
      [given |-> FALSE, start |-> InvalidDate, end |-> InvalidDate] }

\* const inRange = range ? filterRange(allRows, range) : allRows;
InRange(rs, range) == IF range.given THEN filterRange(rs, range) ELSE rs

UseStationArchiveLoad ==
    \E granularity \in HookGranularities, range \in HookRanges :
        Evaluate("useStationArchive", InRange(rows, range),
                 HookCalls(85, <<"TempOut(C)", "RainRate(mm/hr)", "HumOut">>, granularity))

UseStationArchiveCsvLoad ==
    \E granularity \in HookGranularities, range \in HookRanges :
        Evaluate("useStationArchive (csv)", InRange(rows, range),
                 HookCalls(184, <<"temperature_c", "rainfall_mm", "humidity_pct">>, granularity))

\* The readings a page holds: timestamps that parsed.
InitPages ==
    /\ rows \in ListsOver(Readings)
    /\ call = NoCall
    /\ ret = Returned(<<>>)
    /\ hook = NoHook

NextPages ==
    \/ LiveChartData
    \/ StationPagePanel
    \/ ArchiveStationPagePanel
    \/ UseStationArchiveLoad
    \/ UseStationArchiveCsvLoad
    \/ Return

SpecPages == InitPages /\ [][NextPages]_vars

(***************************************************************************)
(* C11.  Every call of buildSeries in the application that builds a        *)
(* rainfall series (metric rainfall_mm) passes reducer 'sum', and every    *)
(* call that builds a temperature, humidity, pressure or wind-speed series *)
(* passes reducer 'avg'.                                                   *)
(***************************************************************************)
C11_ReducerByMetric ==
    call.fn = "render" =>
        \A i \in 1..Len(call.calls) :
            /\ call.calls[i].metric = "rainfall_mm" => call.calls[i].reducer = "sum"
            /\ call.calls[i].metric \in
                    {"temperature_c", "humidity_pct", "pressure_hpa", "windspeed_ms"}
                  => call.calls[i].reducer = "avg"

(***************************************************************************)
(* The calendar: one reading on any day of the first months of 2025 (or    *)
(* with a timestamp that did not parse), keyed by groupByGranularity and   *)
(* labelled by formatLabel.                                                *)
(***************************************************************************)
CalendarDates ==
    {At(d, tick) : d \in 0..MaxDayOfYear, tick \in 0..(TicksPerDay - 1)} \cup {InvalidDate}

InitCalendar ==
    /\ rows \in {<<Reading(dt, Num(20), Num(1))>> : dt \in CalendarDates}
    /\ call = NoCall
    /\ ret = Returned(<<>>)
    /\ hook = NoHook

CallFormatLabel ==
    /\ call = NoCall
    /\ \E i \in 1..Len(rows), granularity \in Granularities :
        /\ call' = [fn |-> "formatLabel", dt |-> rows[i].dt, granularity |-> granularity]
        /\ ret' = Returned(formatLabel(rows[i].dt, granularity))
    /\ UNCHANGED <<rows, hook>>

NextCalendar ==
    \/ CallGroupByGranularity
    \/ CallFormatLabel
    \/ Return

SpecCalendar == InitCalendar /\ [][NextCalendar]_vars

(***************************************************************************)
(* C12.  In 'weekly' mode the bucket key of a reading with a valid         *)
(* timestamp is YYYY-W<NN> with NN = ceil(day-of-month / 7) on two digits: *)
(* days 1-7 give 01, 8-14 give 02, 15-21 give 03, 22-28 give 04 and 29-31  *)
(* give 05, so NN is in 1..5; formatLabel with granularity 'week' gives    *)
(* the same string for the same timestamp.                                 *)
(***************************************************************************)
WeekOfMonth(dayOfMonth) ==
    CHOOSE k \in 1..5 : 7 * (k - 1) < dayOfMonth /\ dayOfMonth <= 7 * k

WeekString(dt) == ToString(YearOf(dt)) \o "-W0" \o ToString(WeekOfMonth(DateOf(dt)))

C12_WeeklyKey ==
    /\ (call.fn = "groupByGranularity" /\ call.mode = "weekly"
            /\ Len(rows) = 1 /\ rows[1].dt.valid) =>
          /\ DateOf(rows[1].dt) \in 1..31
          /\ Len(ret.val) = 1
          /\ ret.val[1].key = StringKey(WeekString(rows[1].dt))
    /\ (call.fn = "formatLabel" /\ call.granularity = "week" /\ call.dt.valid) =>
          /\ ret.val = WeekString(call.dt)
          /\ groupByGranularity(<<Reading(call.dt, Null, Null)>>, "weekly")[1].key
                = StringKey(ret.val)

\* 2025-01-29 and 2025-03-31 fall in week 05, 2025-02-28 in week 04.
C12_Witness ==
    /\ call.fn = "groupByGranularity" /\ call.mode = "weekly"
    /\ rows[1].dt \in {At(28, 0), At(89, 0)}
    /\ ret.val[1].key.str = "2025-W05"

(***************************************************************************)
(* C13.  For bucketMode daily, weekly or monthly each label is a bucket    *)
(* key verbatim and the whole result of buildSeries (labels, series, avg)  *)
(* is the same for every labelGranularity; in 'raw' mode labelGranularity  *)
(* changes the labels only, never the series or the avg.                   *)
(* The result under another label granularity is computed over the same    *)
(* order of the buckets: the one the labels show in the grouped modes, the *)
(* one of the sort in raw mode.  Where the order of the sort is            *)
(* implementation-defined in raw mode, the series holds the values of the  *)
(* single readings and avg their mean, in which labelGranularity has no    *)
(* part.                                                                   *)
(***************************************************************************)
\* The buckets bs in the order of the labels (the keys of bs are distinct).
InOrderOf(labels, bs) ==
    [i \in 1..Len(labels) |->
        bs[CHOOSE j \in 1..Len(bs) : bs[j].key = StringKey(labels[i])]]

C13_LabelGranularityOnlyRawLabels ==
    call.fn = "buildSeries" =>
        \A bs \in {groupByGranularity(rows, call.bucketMode)} :
            /\ ~ret.threw
            /\ call.bucketMode # "raw" =>
                  /\ Len(ret.val.labels) = Len(bs)
                  /\ \A i \in 1..Len(ret.val.labels) :
                        \E j \in 1..Len(bs) : StringKey(ret.val.labels[i]) = bs[j].key
                  /\ \A g \in Granularities :
                        SeriesOf(InOrderOf(ret.val.labels, bs), g, call.metric, call.reducer)
                            = ret.val
            /\ (call.bucketMode = "raw" /\ ConsistentComparator(bs)) =>
                  \A g \in Granularities :
                      \A other \in {SeriesOf(StableSort(bs, Len(bs)), g,
                                             call.metric, call.reducer)} :
                          other.series = ret.val.series /\ other.avg = ret.val.avg
            /\ (call.bucketMode = "raw" /\ ~ConsistentComparator(bs)) =>
                  /\ Len(ret.val.series) = Len(rows)
                  /\ \A v \in Range(ret.val.series) :
                        Cardinality({i \in 1..Len(rows) : ret.val.series[i] = v})
                          = Cardinality({i \in 1..Len(rows) :
                                reduceMetric(<<rows[i]>>, call.metric, call.reducer) = v})
                  /\ ret.val.avg = average(ret.val.series)

\* Monthly buckets asked with the label granularity of raw charts.
C13_Witness ==
    /\ call.fn = "buildSeries"
    /\ call.bucketMode = "monthly" /\ call.labelGranularity = "5min"
    /\ ret.val.labels = <<"2025-06", "2025-07">>

(***************************************************************************)
(* wind.ts: the compass sectors.                                           *)
(* Angles are exact rationals in degrees; the samples are multiples of     *)
(* 0.05, so every sector boundary (an odd multiple of 11.25, exact in      *)
(* binary) is a sample and every other sample lies at least 0.05 away from *)
(* a boundary, out of reach of the rounding of doubles.                    *)
(***************************************************************************)
Infinity == [k |-> "inf", n |-> 1, d |-> 1]

\* typeof v === 'number'
IsNumber(v) == v.k \in {"num", "nan", "inf"}

COMPASS_16 ==
    << "N", "NNE", "NE", "ENE", "E", "ESE", "SE", "SSE",
       "S", "SSW", "SW", "WSW", "W", "WNW", "NW", "NNW" >>

\* The integer part of n / d (d > 0), rounded toward zero.
Trunc(n, d) == IF n < 0 THEN -((-n) \div d) ELSE n \div d

\* x % m for a whole m > 0: the remainder has the sign of x; NaN when x is
\* NaN or an infinity.
JsRem(x, m) ==
    IF x.k = "num" THEN Rat(x.n - m * x.d * Trunc(x.n, m * x.d), x.d) ELSE NaN

\* Math.floor(x / (n / d)) for a finite x >= 0; NaN propagates.
FloorDiv(x, n, d) ==
    IF x.k = "num" THEN Num((x.n * d) \div (x.d * n)) ELSE NaN

\* directionToBinIndex returning the sector the angle starts in: no half
\* sector of offset.
DirectionToBinIndexNoOffset(angleDeg) ==
    LET a == JsRem(JsAdd(JsRem(angleDeg, 360), Num(360)), 360)
    IN  FloorDiv(a, 45, 2)

directionToBinIndex(angleDeg) ==
    LET a == JsRem(JsAdd(JsRem(angleDeg, 360), Num(360)), 360)
        shifted == JsRem(JsAdd(a, Rat(45, 4)), 360)
    IN  FloorDiv(shifted, 45, 2)

\* Angles from -360 up, every 0.05 degree, and the numbers that are no angle.
AngleSamples ==
    {Rat(n, 20) : n \in (-7200)..(7200 * MaxTurns)} \cup {NaN, Infinity}

InitCompass ==
    /\ rows = <<>>
    /\ call = NoCall
    /\ ret = Returned(<<>>)
    /\ hook = NoHook

CallDirectionToBinIndex ==
    /\ call = NoCall
    /\ \E angleDeg \in AngleSamples :
        /\ call' = [fn |-> "directionToBinIndex", angleDeg |-> angleDeg]
        /\ ret' = Returned(directionToBinIndex(angleDeg))
    /\ UNCHANGED <<rows, hook>>

NextCompass ==
    \/ CallDirectionToBinIndex
    \/ Return

SpecCompass == InitCompass /\ [][NextCompass]_vars

(***************************************************************************)
(* C14.  For every finite angle a, directionToBinIndex(a) is an integer in *)
(* 0..15, and it is k exactly when a, normalised into [0, 360), lies in    *)
(* the half-open sector [22.5k - 11.25, 22.5k + 11.25) taken modulo 360:   *)
(* 0 and 11.2 give 0, 11.25 and 11.3 give 1, 348.75 up to 360 give 0; a,   *)
(* a + 360 and a - 360 give the same index, negative angles included.      *)
(* For NaN and the infinities the result is NaN, no sector at all.         *)
(***************************************************************************)
\* a normalised into [0, 360): the rational n/d with 0 <= n/d < 360 that
\* differs from a by a multiple of 360.
Normalised(a) == Rat(a.n - 360 * a.d * (a.n \div (360 * a.d)), a.d)

\* lo <= x < hi for x = n/d and bounds given in quarter degrees.
InQuarters(x, lo, hi) == lo * x.d <= 4 * x.n /\ 4 * x.n < hi * x.d

\* a lies in sector k: [22.5k - 11.25, 22.5k + 11.25) modulo 360.
InSector(a, k) ==
    LET x == Normalised(a)
    IN  IF k = 0
        THEN InQuarters(x, 0, 45) \/ InQuarters(x, 1395, 1440)
        ELSE InQuarters(x, 90 * k - 45, 90 * k + 45)

C14_SectorOfFiniteAngle ==
    call.fn = "directionToBinIndex" =>
        /\ ~ret.threw
        /\ call.angleDeg.k = "num" =>
              /\ ret.val.k = "num" /\ ret.val.d = 1 /\ ret.val.n \in 0..15
              /\ \A k \in 0..15 : (ret.val = Num(k)) <=> InSector(call.angleDeg, k)
              /\ directionToBinIndex(JsAdd(call.angleDeg, Num(360))) = ret.val
              /\ directionToBinIndex(JsAdd(call.angleDeg, Num(-360))) = ret.val
              /\ call.angleDeg \in {Num(0), Rat(112, 10)} => ret.val = Num(0)
              /\ call.angleDeg \in {Rat(1125, 100), Rat(113, 10)} => ret.val = Num(1)
              /\ InQuarters(call.angleDeg, 1395, 1440) => ret.val = Num(0)
        /\ call.angleDeg.k # "num" => ret.val = NaN

\* The statement as the specification words it: an integer in 0..15 always.
C14_AlwaysASector ==
    call.fn = "directionToBinIndex" =>
        ret.val.k = "num" /\ ret.val.d = 1 /\ ret.val.n \in 0..15

\* The boundary 11.25 approached from a negative angle: -348.75 is NNE.
C14_Witness ==
    /\ call.fn = "directionToBinIndex"
    /\ call.angleDeg = Rat(-34875, 100)
    /\ ret.val = Num(1)

(***************************************************************************)
(* wind.ts: the wind rose and the vector average.                          *)
(*                                                                         *)
(* Math.sin and Math.cos of the sampled directions are the IEEE doubles,   *)
(* written a + b*q + t*u: a is the rational part, q stands for sin 10      *)
(* degrees in an x component and for cos 10 degrees in a y component, and  *)
(* u = 2^-54 * 1.1... = 6.1232e-17 is the size of the rounding residue     *)
(* (Math.cos(Math.PI / 2) is u, Math.sin(Math.PI) is 2u, Math.sin of       *)
(* 360 degrees is -4u).  A residue decides the result only where the       *)
(* rational and q parts cancel.  Sample speeds are whole numbers.          *)
(***************************************************************************)
WindReading(dir, speed) == [wind_dir_deg |-> dir, windspeed_ms |-> speed]

\* Observations with a finite direction: due North twice, a calm one from
\* the East, two symmetric about North, a full turn without a speed, and a
\* southerly one whose speed is negative (a sensor glitch).
WindReadings ==
    { WindReading(Num(0), Num(2)),
      WindReading(Num(0), Num(4)),
      WindReading(Num(90), Num(0)),
      WindReading(Num(350), Num(2)),
      WindReading(Num(10), Num(2)),
      WindReading(Num(360), Null),
      WindReading(Num(180), Num(-2)) }

\* Observations of a damaged feed: the direction is NaN, missing, infinite
\* or null, or the speed is missing, among usable ones.
DamagedWindReadings ==
    { WindReading(NaN, Num(4)),
      WindReading(Undefined, Num(2)),
      WindReading(Infinity, Num(2)),
      WindReading(Null, Null),
      WindReading(Num(0), Num(2)),
      WindReading(Num(90), Num(0)),
      WindReading(Num(90), Undefined),
      WindReading(Num(360), Null) }

WindRowLists == ListsOver(WindReadings) \cup ListsOver(DamagedWindReadings)

\* new Array(16).fill(0); stray records a property set outside the indices.
EmptyBins == [sectors |-> [k \in 1..16 |-> Num(0)], stray |-> FALSE]

\* binWindDirections adding the wind speed whether weighted is set or not.
BinWeightAlwaysSpeed(r, weighted) ==
    IF IsNumber(r.windspeed_ms) THEN r.windspeed_ms ELSE Num(1)

\* binWindDirections giving an observation without a speed no weight in
\* weighted mode: weighted ? (r.windspeed_ms ?? 0) : 1.
BinWeightZeroWithoutSpeed(r, weighted) ==
    IF weighted
    THEN (IF IsNumber(r.windspeed_ms) THEN r.windspeed_ms ELSE Num(0))
    ELSE Num(1)

\* const w = weighted && typeof r.windspeed_ms === 'number' ? r.windspeed_ms : 1;
BinWeight(r, weighted) ==
    IF weighted /\ IsNumber(r.windspeed_ms) THEN r.windspeed_ms ELSE Num(1)

\* binWindDirections counting a NaN index as sector 0 (bins[idx | 0] += w).
BinAddInt32(bins, idx, w) ==
    IF idx.k = "num"
    THEN [bins EXCEPT !.sectors[idx.n + 1] = JsAdd(@, w)]
    ELSE [bins EXCEPT !.sectors[1] = JsAdd(@, w)]

\* bins[idx] += w: sector idx is sectors[idx + 1]; bins[NaN] is a property
\* of the array object and no element of it.
BinAdd(bins, idx, w) ==
    IF idx.k = "num"
    THEN [bins EXCEPT !.sectors[idx.n + 1] = JsAdd(@, w)]
    ELSE [bins EXCEPT !.stray = TRUE]

RECURSIVE BinLoop(_, _, _)
\* for (const r of rows) { ... } over rs[1..i]
BinLoop(rs, weighted, i) ==
    IF i = 0 THEN EmptyBins
    ELSE LET bins == BinLoop(rs, weighted, i - 1)
             r == rs[i]
         IN  IF ~IsNumber(r.wind_dir_deg) THEN bins
             ELSE BinAdd(bins, directionToBinIndex(r.wind_dir_deg),
                         BinWeight(r, weighted))

binWindDirections(rs, weighted) == BinLoop(rs, weighted, Len(rs))

\* A double a + b*q + t*u.
Double(a, b, t) == [a |-> a, b |-> b, t |-> t]

Zero == Double(0, 0, 0)

\* Math.sin(degreesToRadians(direction)) on the sampled directions.
SinOf(direction) ==
    CASE direction = Num(0) -> Zero
      [] direction = Num(10) -> Double(0, 1, 0)
      [] direction = Num(90) -> Double(1, 0, 0)
      [] direction = Num(180) -> Double(0, 0, 2)
      [] direction = Num(350) -> Double(0, -1, -15)
      [] direction = Num(360) -> Double(0, 0, -4)

\* Math.cos(degreesToRadians(direction)) on the sampled directions.
CosOf(direction) ==
    CASE direction = Num(0) -> Double(1, 0, 0)
      [] direction = Num(10) -> Double(0, 1, 0)
      [] direction = Num(90) -> Double(0, 0, 1)
      [] direction = Num(180) -> Double(-1, 0, 0)
      [] direction = Num(350) -> Double(0, 1, -2)
      [] direction = Num(360) -> Double(1, 0, 0)

\* x * weight and x + y, part by part.
Times(x, weight) == Double(x.a * weight, x.b * weight, x.t * weight)

Plus(x, y) == Double(x.a + y.a, x.b + y.b, x.t + y.t)

Sign(n) == IF n > 0 THEN 1 ELSE IF n < 0 THEN -1 ELSE 0

\* The value of a + b*q in ten-thousandths, q being sin (1736) or cos (9848)
\* of 10 degrees: zero only when a and b are, q being irrational.
MainOf(x, q) == 10000 * x.a + q * x.b

\* typeof dir === 'number' && !isNaN(dir) && isFinite(dir)
IsValidDirection(dir) == IsNumber(dir) /\ dir.k # "nan" /\ dir.k # "inf"

\* A JavaScript value taken as a condition: 0, NaN, null and undefined are
\* falsy.
Truthy(v) == v.k = "inf" \/ (v.k = "num" /\ v.n # 0)

\* windSpeeds[i] with the indices of JavaScript (from 0): undefined past
\* the end.
ElementAt(list, i) == IF i + 1 <= Len(list) THEN list[i + 1] ELSE Undefined

\* windSpeeds && windSpeeds[i] ? windSpeeds[i] : 1, as a whole number.
WeightAt(windSpeeds, i) ==
    IF windSpeeds.given /\ Truthy(ElementAt(windSpeeds.list, i))
    THEN ElementAt(windSpeeds.list, i).n
    ELSE 1

RECURSIVE VectorLoop(_, _, _)
\* for (let i = 0; i < validDirections.length; i++) { ... }: the sums after
\* the first n directions.
VectorLoop(validDirections, windSpeeds, n) ==
    IF n = 0 THEN [xSum |-> Zero, ySum |-> Zero, totalWeight |-> 0]
    ELSE LET before == VectorLoop(validDirections, windSpeeds, n - 1)
             direction == validDirections[n]
             weight == WeightAt(windSpeeds, n - 1)
         IN  [xSum |-> Plus(before.xSum, Times(SinOf(direction), weight)),
              ySum |-> Plus(before.ySum, Times(CosOf(direction), weight)),
              totalWeight |-> before.totalWeight + weight]

\* An angle off the four axes, kept as the direction it points to: the
\* residue of a component counts only where the rest of it is zero, and the
\* common factor is taken out.
Toward(x, y) ==
    LET xs == IF MainOf(x, 1736) # 0 THEN Double(x.a, x.b, 0) ELSE x
        ys == IF MainOf(y, 9848) # 0 THEN Double(y.a, y.b, 0) ELSE y
        g == Gcd(Gcd(Gcd(Abs(xs.a), Abs(xs.b)), Gcd(Abs(xs.t), Abs(ys.a))),
                 Gcd(Abs(ys.b), Abs(ys.t)))
    IN  [k |-> "num",
         toward |-> << Double(xs.a \div g, xs.b \div g, xs.t \div g),
                       Double(ys.a \div g, ys.b \div g, ys.t \div g) >>]

\* radiansToDegrees(Math.atan2(x, y)), plus 360 when negative, for a vector
\* on or beside an axis: sx and sy are the signs of x and y without their
\* residues, mx and my their sizes in ten-thousandths, rx and ry their
\* residues.  Beside an axis the result is the axis itself where the
\* rounding of atan2 or of the addition of 360 absorbs the offset:
\*   below 360: -e + 360 is 360 when e is under half the spacing of the
\*     doubles there (2.84e-14 degrees, 8.1 u per unit of y);
\*   at 180: Math.PI is 2u below pi, and pi - d rounds to Math.PI for d
\*     below 5.6 u;
\*   at 90: Math.PI / 2 is u below pi / 2, and pi / 2 - d rounds to it for d
\*     between -0.81 u and 2.81 u;
\*   at 270: -90 + e + 360 is 270 for e under 8.1 u per unit of x;
\*   above 0 nothing is absorbed, the doubles being dense there.
\* The rule gives the doubles of IEEE 754 evaluation for every list of up
\* to four of the sampled observations.
Atan2Degrees(sx, sy, rx, ry, mx, my, x, y) ==
    IF sx = 0 /\ sy > 0
    THEN IF rx < 0
         THEN IF 100000 * Abs(rx) < 81 * my THEN Num(360) ELSE Toward(x, y)
         ELSE IF rx > 0 THEN Toward(x, y) ELSE Num(0)
    ELSE IF sx = 0 /\ sy < 0
    THEN IF 100000 * Abs(rx) < 56 * Abs(my) THEN Num(180) ELSE Toward(x, y)
    ELSE IF sy = 0 /\ sx > 0
    THEN IF -81 * mx < 1000000 * ry /\ 1000000 * ry < 281 * mx
         THEN Num(90) ELSE Toward(x, y)
    ELSE IF sy = 0 /\ sx < 0
    THEN IF 100000 * Abs(ry) < 81 * Abs(mx) THEN Num(270) ELSE Toward(x, y)
    ELSE Toward(x, y)

\* The end of calculateVectorAverageWindDirection: avgX, avgY, atan2 and
\* the normalisation.  Dividing by a negative totalWeight turns the vector
\* round, and a zero into -0: atan2(0, -0) is 180 degrees.
AverageDirection(xSum, ySum, totalWeight) ==
    LET x == Times(xSum, Sign(totalWeight))
        y == Times(ySum, Sign(totalWeight))
        mx == MainOf(x, 1736)
        my == MainOf(y, 9848)
    IN  IF mx = 0 /\ my = 0
        THEN IF x.t = 0 /\ y.t = 0
             THEN (IF totalWeight > 0 THEN Num(0) ELSE Num(180))
             ELSE Atan2Degrees(Sign(x.t), Sign(y.t), 0, 0, 1, 1, x, y)
        ELSE Atan2Degrees(Sign(mx), Sign(my), x.t, y.t, mx, my, x, y)

\* windSpeeds: undefined, or a list.
NoSpeeds == [given |-> FALSE, list |-> <<>>]

Speeds(list) == [given |-> TRUE, list |-> list]

\* calculateVectorAverageWindDirection returning 0 where it has no result.
CalculateVectorAverageOrZero(windDirections, windSpeeds) ==
    IF Len(windDirections) = 0 THEN Num(0)
    ELSE LET validDirections == SelectSeq(windDirections, IsValidDirection)
             sums == VectorLoop(validDirections, windSpeeds, Len(validDirections))
         IN  IF Len(validDirections) = 0 THEN Num(0)
             ELSE IF sums.totalWeight = 0 THEN Num(0)
             ELSE AverageDirection(sums.xSum, sums.ySum, sums.totalWeight)

calculateVectorAverageWindDirection(windDirections, windSpeeds) ==
    IF Len(windDirections) = 0 THEN Null
    ELSE LET validDirections == SelectSeq(windDirections, IsValidDirection)
             sums == VectorLoop(validDirections, windSpeeds, Len(validDirections))
         IN  IF Len(validDirections) = 0 THEN Null
             ELSE IF sums.totalWeight = 0 THEN Null
             ELSE AverageDirection(sums.xSum, sums.ySum, sums.totalWeight)

\* typeof row.windspeed_ms === 'number' && !isNaN(...) && isFinite(...)
IsValidSpeed(speed) == IsNumber(speed) /\ speed.k # "nan" /\ speed.k # "inf"

RECURSIVE DatasetLoop(_, _, _)
\* for (const row of rows) { ... }: directions and speeds after rs[1..i]
DatasetLoop(rs, weighted, i) ==
    IF i = 0 THEN [directions |-> <<>>, speeds |-> <<>>]
    ELSE LET before == DatasetLoop(rs, weighted, i - 1)
             row == rs[i]
         IN  IF IsValidDirection(row.wind_dir_deg)
             THEN [directions |-> Append(before.directions, row.wind_dir_deg),
                   speeds |-> IF weighted /\ IsValidSpeed(row.windspeed_ms)
                              THEN Append(before.speeds, row.windspeed_ms)
                              ELSE before.speeds]
             ELSE before

calculateDatasetVectorAverageWindDirection(rs, weighted) ==
    LET lists == DatasetLoop(rs, weighted, Len(rs))
    IN  calculateVectorAverageWindDirection(
            lists.directions, IF weighted THEN Speeds(lists.speeds) ELSE NoSpeeds)

\* The columns of a list of observations.
DirectionsOf(rs) == [i \in 1..Len(rs) |-> rs[i].wind_dir_deg]

SpeedsOf(rs) == [i \in 1..Len(rs) |-> rs[i].windspeed_ms]

InitWind ==
    /\ rows \in WindRowLists
    /\ call = NoCall
    /\ ret = Returned(<<>>)
    /\ hook = NoHook

CallBinWindDirections ==
    /\ call = NoCall
    /\ \E weighted \in BOOLEAN :
        /\ call' = [fn |-> "binWindDirections", weighted |-> weighted]
        /\ ret' = Returned(binWindDirections(rows, weighted))
    /\ UNCHANGED <<rows, hook>>

\* Called with the directions of the observations and, or not, their speeds.
CallCalculateVectorAverage ==
    /\ call = NoCall
    /\ \E withSpeeds \in BOOLEAN :
        /\ call' = [fn |-> "calculateVectorAverageWindDirection",
                    withSpeeds |-> withSpeeds]
        /\ ret' = Returned(calculateVectorAverageWindDirection(
                      DirectionsOf(rows),
                      IF withSpeeds THEN Speeds(SpeedsOf(rows)) ELSE NoSpeeds))
    /\ UNCHANGED <<rows, hook>>

CallCalculateDatasetVectorAverage ==
    /\ call = NoCall
    /\ \E weighted \in BOOLEAN :
        /\ call' = [fn |-> "calculateDatasetVectorAverageWindDirection",
                    weighted |-> weighted]
        /\ ret' = Returned(calculateDatasetVectorAverageWindDirection(rows, weighted))
    /\ UNCHANGED <<rows, hook>>

NextWind ==
    \/ CallBinWindDirections
    \/ CallCalculateVectorAverage
    \/ CallCalculateDatasetVectorAverage
    \/ Return

SpecWind == InitWind /\ [][NextWind]_vars

(***************************************************************************)
(* Claims about the wind rose.                                             *)
(***************************************************************************)
RECURSIVE SectorTotal(_, _, _, _)
\* What the first i observations of rs give sector k (0 to 15): 1, or with
\* weighted the speed where it is a number, for each observation whose
\* direction is a finite number in the sector.
SectorTotal(rs, weighted, k, i) ==
    IF i = 0 THEN Num(0)
    ELSE LET r == rs[i]
             before == SectorTotal(rs, weighted, k, i - 1)
         IN  IF r.wind_dir_deg.k = "num" /\ InSector(r.wind_dir_deg, k)
             THEN JsAdd(before,
                        IF weighted /\ r.windspeed_ms.k \in {"num", "nan", "inf"}
                        THEN r.windspeed_ms ELSE Num(1))
             ELSE before

\* C15: binWindDirections returns 16 values, one per label of COMPASS_16
\* and in its order (N first), and each is made up by the observations with
\* a finite direction alone: one whose direction is missing, null, NaN or
\* infinite changes no sector, weighted or not.
C15_InvalidDirectionChangesNoSector ==
    call.fn = "binWindDirections" =>
        /\ Len(ret.val.sectors) = 16
        /\ Len(COMPASS_16) = 16
        /\ COMPASS_16[1] = "N"
        /\ \A k \in 0..15 :
              ret.val.sectors[k + 1] = SectorTotal(rows, call.weighted, k, Len(rows))

\* A NaN direction before a usable one: the NaN went past the typeof test,
\* and only the usable one is counted.
C15_Witness ==
    /\ call.fn = "binWindDirections"
    /\ call.weighted
    /\ rows = << WindReading(NaN, Num(4)), WindReading(Num(0), Num(2)) >>
    /\ ret.val.stray
    /\ ret.val.sectors[1] = Num(2)
    /\ \A k \in 2..16 : ret.val.sectors[k] = Num(0)

\* Every observation has a finite direction and a finite speed.
AllFinite(rs) ==
    \A i \in 1..Len(rs) : rs[i].wind_dir_deg.k = "num" /\ rs[i].windspeed_ms.k = "num"

\* The observations of rs in sector k.
InSectorOf(rs, k) == {i \in 1..Len(rs) : InSector(rs[i].wind_dir_deg, k)}

RECURSIVE SpeedSum(_, _)
\* The sum of the speeds of the observations at the positions in S.
SpeedSum(rs, S) ==
    IF S = {} THEN Num(0)
    ELSE LET i == CHOOSE j \in S : TRUE
         IN  JsAdd(SpeedSum(rs, S \ {i}), rs[i].windspeed_ms)

RECURSIVE SumOfSectors(_, _)
\* The sum of the first n sector values.
SumOfSectors(sectors, n) ==
    IF n = 0 THEN Num(0) ELSE JsAdd(SumOfSectors(sectors, n - 1), sectors[n])

\* C16: for observations that all have a finite direction and a finite
\* speed, sector k holds the number of observations in it when unweighted
\* (the 16 values sum to the number of observations) and the sum of their
\* speeds when weighted.
C16_CountsAndSpeedSums ==
    (call.fn = "binWindDirections" /\ AllFinite(rows)) =>
        IF call.weighted
        THEN \A k \in 0..15 :
                ret.val.sectors[k + 1] = SpeedSum(rows, InSectorOf(rows, k))
        ELSE /\ \A k \in 0..15 :
                  ret.val.sectors[k + 1] = Num(Cardinality(InSectorOf(rows, k)))
             /\ SumOfSectors(ret.val.sectors, 16) = Num(Len(rows))

\* Two observations due North with speeds 2 and 4: 6 in sector 0 weighted.
C16_Witness ==
    /\ call.fn = "binWindDirections"
    /\ call.weighted
    /\ rows = << WindReading(Num(0), Num(2)), WindReading(Num(0), Num(4)) >>
    /\ ret.val.sectors[1] = Num(6)

(***************************************************************************)
(* Claims about the vector average.                                        *)
(***************************************************************************)
\* The directions of rs that are finite numbers, in order.
FiniteDirections(rs) ==
    SelectSeq(DirectionsOf(rs), LAMBDA dir : dir.k = "num")

RECURSIVE TotalWeight(_, _)
\* The weights the function gives its first n finite directions, summed.
TotalWeight(windSpeeds, n) ==
    IF n = 0 THEN 0
    ELSE TotalWeight(windSpeeds, n - 1) + WeightAt(windSpeeds, n - 1)

\* The argument windSpeeds of the call in progress.
SpeedsPassed ==
    IF call.withSpeeds THEN Speeds(SpeedsOf(rows)) ELSE NoSpeeds

C18_NeverReturns360 ==
    call.fn = "calculateVectorAverageWindDirection" =>
        /\ ret.val # Num(360)
        /\ (~call.withSpeeds /\ DirectionsOf(rows) = << Num(350), Num(10) >>)
              => ret.val \in {Num(0), Num(360)}

\* The weight an observation is owed: its speed when that is a finite
\* number, 0 included, and 1 when it has none.
WeightOwed(r) == IF r.windspeed_ms.k = "num" THEN r.windspeed_ms.n ELSE 1

RECURSIVE PairedSums(_, _)
\* The sums over the first i observations, each finite direction weighted
\* by the speed of its own observation.
PairedSums(rs, i) ==
    IF i = 0 THEN [xSum |-> Zero, ySum |-> Zero, totalWeight |-> 0]
    ELSE LET before == PairedSums(rs, i - 1)
             r == rs[i]
         IN  IF r.wind_dir_deg.k # "num" THEN before
             ELSE [xSum |-> Plus(before.xSum,
                                 Times(SinOf(r.wind_dir_deg), WeightOwed(r))),
                   ySum |-> Plus(before.ySum,
                                 Times(CosOf(r.wind_dir_deg), WeightOwed(r))),
                   totalWeight |-> before.totalWeight + WeightOwed(r)]

\* The average of the observations with each speed kept on its direction.
PairedAverage(rs) ==
    LET sums == PairedSums(rs, Len(rs))
    IN  IF Len(FiniteDirections(rs)) = 0 \/ sums.totalWeight = 0 THEN Null
        ELSE AverageDirection(sums.xSum, sums.ySum, sums.totalWeight)

\* C19: in the speed-weighted average every finite direction carries the
\* speed of its own observation (0 for a speed of 0, 1 for an absent one),
\* whatever observations are dropped for their direction or lack a speed,
\* in calculateVectorAverageWindDirection(directions, speeds) and in
\* calculateDatasetVectorAverageWindDirection(rows, true).
C19_SpeedStaysOnItsDirection ==
    /\ (call.fn = "calculateVectorAverageWindDirection" /\ call.withSpeeds)
          => ret.val = PairedAverage(rows)
    /\ (call.fn = "calculateDatasetVectorAverageWindDirection" /\ call.weighted)
          => ret.val = PairedAverage(rows)

(***************************************************************************)
(* The functions that take the caller's list: the three of aggregate.ts on *)
(* a list of readings, binWindDirections on a list of wind observations.   *)
(***************************************************************************)
InitPure ==
    /\ rows \in RowLists \cup WindRowLists
    /\ call = NoCall
    /\ ret = Returned(<<>>)
    /\ hook = NoHook

\* rows: Row[]
FilterRangeOfReadings == rows \in RowLists /\ CallFilterRange

GroupReadings == rows \in RowLists /\ CallGroupByGranularity

BuildSeriesOfReadings == rows \in RowLists /\ CallBuildSeries

\* rows: Array<{ wind_dir_deg?, windspeed_ms? }>
BinWindReadings == rows \in WindRowLists /\ CallBinWindDirections

NextPure ==
    \/ FilterRangeOfReadings
    \/ GroupReadings
    \/ BuildSeriesOfReadings
    \/ BinWindReadings
    \/ Return

SpecPure == InitPure /\ [][NextPure]_vars

\* What a call c on the list rs can return.  The order buildSeries gives
\* buckets whose comparator is inconsistent (a timestamp that did not
\* parse) is up to the engine's sort; every other result is determined.
Outcomes(rs, c) ==
    CASE c.fn = "filterRange" ->
            {Returned(filterRange(rs, [start |-> c.start, end |-> c.end]))}
      [] c.fn = "groupByGranularity" ->
            {Returned(groupByGranularity(rs, c.mode))}
      [] c.fn = "buildSeries" ->
            buildSeries(rs, c.labelGranularity, c.bucketMode, c.metric, c.reducer)
      [] c.fn = "binWindDirections" ->
            {Returned(binWindDirections(rs, c.weighted))}

\* The sort of the call c on rs is the engine's to decide.
EngineDecides(rs, c) ==
    /\ c.fn = "buildSeries"
    /\ ~ConsistentComparator(groupByGranularity(rs, c.bucketMode))

May1 == At(120, 0)

SeasonReadings == Readings \cup { Reading(May1, Num(5), Num(3)) }

InitSeason ==
    /\ rows \in ListsOver(SeasonReadings) \cup ListsOver(DamagedReadings)
    /\ call = NoCall
    /\ ret = Returned(<<>>)
    /\ hook = NoHook

NextSeason ==
    \/ CallGroupByGranularity
    \/ CallBuildSeries
    \/ Return

SpecSeason == InitSeason /\ [][NextSeason]_vars

(***************************************************************************)
(* Claims about the order of the buckets.                                  *)
(***************************************************************************)
\* The readings of rs that carry the weekly label.
UnderWeek(rs, label) == {i \in 1..Len(rs) : WeekString(rs[i].dt) = label}

\* The first of them in the order of the list: the one that created the
\* bucket.
FirstUnderWeek(rs, label) ==
    CHOOSE i \in UnderWeek(rs, label) : \A j \in UnderWeek(rs, label) : i <= j

\* Year and week ordinal of a weekly label, as one number.
WeekRank(rs, label) ==
    LET dt == rs[FirstUnderWeek(rs, label)].dt
    IN  10 * YearOf(dt) + WeekOfMonth(DateOf(dt))

\* C22 (as the code has it): with bucketMode 'weekly' and valid timestamps
\* there is one label per (year, week of the month) present, the value
\* under a label reduces all the readings of that label, and the labels
\* stand in the order of the timestamps of the readings that came first
\* under each label in the input; that is not the order of the labels, and
\* it changes with the order of the input.
C22_WeeklyOrderedByFirstReading ==
    (call.fn = "buildSeries" /\ call.bucketMode = "weekly" /\ AllValid(rows)) =>
        /\ ~ret.threw
        /\ Range(ret.val.labels) = {WeekString(rows[i].dt) : i \in 1..Len(rows)}
        /\ \A i, j \in 1..Len(ret.val.labels) :
              i < j =>
                 rows[FirstUnderWeek(rows, ret.val.labels[i])].dt.t
                    < rows[FirstUnderWeek(rows, ret.val.labels[j])].dt.t
        /\ \A i \in 1..Len(ret.val.labels) :
              IF call.reducer = "avg"
              THEN IsMeanOf(ret.val.series[i], rows, call.metric,
                            UnderWeek(rows, ret.val.labels[i]))
              ELSE IsSumOf(ret.val.series[i], rows, call.metric,
                           UnderWeek(rows, ret.val.labels[i]))

\* C22 (as stated): with bucketMode 'weekly' and valid timestamps the
\* labels are ascending by year, then week ordinal.
C22_WeeklyLabelsAscending ==
    (call.fn = "buildSeries" /\ call.bucketMode = "weekly" /\ AllValid(rows)) =>
        \A i, j \in 1..Len(ret.val.labels) :
            i < j => WeekRank(rows, ret.val.labels[i]) < WeekRank(rows, ret.val.labels[j])

\* 1 July, 10 June, 1 May: week 01 was created by 1 July, after 10 June, so
\* week 02 comes first; the same readings given earliest first put week
\* 01 first.
C22_Witness ==
    /\ call.fn = "buildSeries"
    /\ call.bucketMode = "weekly"
    /\ Len(rows) = 3
    /\ rows[1].dt = Jul1 /\ rows[2].dt = Jun10 /\ rows[3].dt = May1
    /\ ret.val.labels = <<"2025-W02", "2025-W01">>

\* The readings of rs whose key in a grouped mode is the label.
UnderLabel(rs, mode, label) ==
    {i \in 1..Len(rs) : BucketKey(rs[i].dt, mode) = label}

\* The timestamp of the reading that created the bucket of the label.
FirstTimeUnder(rs, mode, label) ==
    LET S == UnderLabel(rs, mode, label)
    IN  rs[CHOOSE i \in S : \A j \in S : i <= j].dt.t

\* The place of reading i in time order, input order deciding between
\* equal timestamps.
StableRank(rs, i) ==
    1 + Cardinality({j \in 1..Len(rs) :
                        \/ rs[j].dt.t < rs[i].dt.t
                        \/ (rs[j].dt.t = rs[i].dt.t /\ j < i)})

\* C23: for valid timestamps buildSeries emits the buckets in
\* non-decreasing order of the timestamp of the reading that created each
\* bucket, and buckets at equal timestamps in the order of their creation:
\* in raw mode reading i of the input stands at its stable rank.
C23_StableByFirstReading ==
    (call.fn = "buildSeries" /\ AllValid(rows)) =>
        /\ ~ret.threw
        /\ (call.bucketMode = "raw") =>
              /\ Len(ret.val.labels) = Len(rows)
              /\ Len(ret.val.series) = Len(rows)
              /\ \A i \in 1..Len(rows) :
                    \A k \in {StableRank(rows, i)} :
                        /\ ret.val.labels[k] = formatLabel(rows[i].dt, call.labelGranularity)
                        /\ IsSumOf(ret.val.series[k], rows, call.metric, {i})
        /\ (call.bucketMode # "raw") =>
              \A k, l \in 1..Len(ret.val.labels) :
                  k < l =>
                     FirstTimeUnder(rows, call.bucketMode, ret.val.labels[k])
                        <= FirstTimeUnder(rows, call.bucketMode, ret.val.labels[l])

\* Two readings of the same instant, the one without a temperature given
\* first, and an earlier reading given last.
C23_Witness ==
    /\ call.fn = "buildSeries"
    /\ call.bucketMode = "raw"
    /\ call.metric = "temperature_c"
    /\ rows = << Reading(Jul1Later, Null, Num(2)),
                 Reading(Jul1Later, Num(30), Undefined),
                 Reading(Jul1, Num(20), Num(1)) >>
    /\ ret.val.series = << Num(20), Num(0), Num(30) >>

(***************************************************************************)
(* Claims about the buckets.                                               *)
(***************************************************************************)
\* The entry a reading owes the series on its own: its value for the
\* metric when that is a finite number, 0 otherwise.
OwnValue(r, metric) == IF r[metric].k = "num" THEN r[metric] ELSE Num(0)

\* C24: in raw mode every reading is a bucket of its own: buildSeries
\* returns one label and one series entry per reading, readings of equal
\* timestamps included; the label is the reading's timestamp formatted by
\* labelGranularity and the entry its metric value, or 0 when that is not
\* finite.
C24_RawOnePerReading ==
    (call.fn = "buildSeries" /\ call.bucketMode = "raw") =>
        /\ ~ret.threw
        /\ Len(ret.val.labels) = Len(rows)
        /\ Len(ret.val.series) = Len(rows)
        /\ LET n == Len(rows)
               owed == [i \in 1..n |->
                          << formatLabel(rows[i].dt, call.labelGranularity),
                             OwnValue(rows[i], call.metric) >>]
               got == [i \in 1..n |-> << ret.val.labels[i], ret.val.series[i] >>]
           IN  \A x \in Range(owed) \cup Range(got) :
                  Cardinality({i \in 1..n : owed[i] = x})
                     = Cardinality({i \in 1..n : got[i] = x})

\* Two readings of 2025-07-01 12:00, one without a temperature.
C24_Witness ==
    /\ call.fn = "buildSeries"
    /\ call.bucketMode = "raw"
    /\ call.labelGranularity = "5min"
    /\ call.metric = "temperature_c"
    /\ rows = << Reading(Jul1Later, Num(30), Undefined),
                 Reading(Jul1Later, Null, Num(2)) >>
    /\ ret.val.labels = << "Jul 1, 12:00", "Jul 1, 12:00" >>
    /\ ret.val.series = << Num(30), Num(0) >>

\* The labels of the grouped mode that readings with a valid timestamp give.
ValidLabels(rs, mode) ==
    {BucketKey(rs[i].dt, mode) : i \in {j \in 1..Len(rs) : rs[j].dt.valid}}

\* C25: in daily, weekly and monthly mode a reading whose timestamp is
\* invalid is dropped or its bucket stands after every bucket of valid
\* readings: no such bucket is ahead of a valid one, and the valid buckets
\* keep the order they have without it.
C25_InvalidLastOrDropped ==
    (call.fn = "buildSeries" /\ call.bucketMode # "raw") =>
        LET labels == ret.val.labels
            valid == ValidLabels(rows, call.bucketMode)
        IN  /\ \A k, l \in 1..Len(labels) :
                  (k < l /\ labels[k] \notin valid) => labels[l] \notin valid
            /\ \A k, l \in 1..Len(labels) :
                  (k < l /\ labels[k] \in valid /\ labels[l] \in valid) =>
                      FirstTimeUnder(rows, call.bucketMode, labels[k])
                         <= FirstTimeUnder(rows, call.bucketMode, labels[l])

\* The readings of rs at the positions in S, in the order of rs.
Restrict(rs, S) == [k \in 1..Cardinality(S) |-> rs[KthOf(S, k)]]

\* C26: groupByGranularity partitions its input in every mode: the
\* positions of the input can be dealt to the buckets so that each bucket
\* holds the readings dealt to it, in input order, and none is empty; in the
\* grouped modes no key occurs twice; and buildSeries, which reads rows[0]
\* and rows[floor(n / 2)] of every bucket, does not fail.
C26_BucketsPartitionInput ==
    /\ call.fn = "groupByGranularity" =>
          /\ ~ret.threw
          /\ \A buckets \in {ret.val} :
                /\ \A b \in 1..Len(buckets) : Len(buckets[b].rows) >= 1
                /\ \E deal \in [1..Len(rows) -> 1..Len(buckets)] :
                      \A b \in 1..Len(buckets) :
                          buckets[b].rows =
                              Restrict(rows, {i \in 1..Len(rows) : deal[i] = b})
                /\ (call.mode # "raw") =>
                      \A b, c \in 1..Len(buckets) :
                          buckets[b].key = buckets[c].key => b = c
    /\ call.fn = "buildSeries" => ~ret.threw

\* Two readings of 2025-07-01 given later one first, a reading of the next
\* day between them: the bucket of 2025-07-01 holds them as given.
C26_Witness ==
    /\ call.fn = "groupByGranularity"
    /\ call.mode = "daily"
    /\ rows = << Reading(Jul1Later, Num(30), Undefined),
                 Reading(Jul2, Num(10), Num(4)),
                 Reading(Jul1, Num(20), Num(1)) >>
    /\ Len(ret.val) = 2
    /\ ret.val[1].rows = << rows[1], rows[3] >>
    /\ ret.val[2].rows = << rows[2] >>

(***************************************************************************)
(* A run of days: one reading per day over a week, a month or two months,  *)
(* starting on any sampled day of early 2025 or 300 days later (so that    *)
(* the longer runs pass into 2026), given in time order or latest first.   *)
(***************************************************************************)
RunLengths == {1, 8, 35, 40}

RunStarts == {d + shift : d \in 0..MaxDayOfYear, shift \in {0, 300}}

DaysFrom(first, count, latestFirst) ==
    [k \in 1..count |->
        Reading(At(IF latestFirst THEN first + count - k ELSE first + k - 1, 0),
                Num(20), Num(1))]

InitYear ==
    /\ rows \in {DaysFrom(first, count, latestFirst) :
                    first \in RunStarts, count \in RunLengths, latestFirst \in BOOLEAN}
    /\ call = NoCall
    /\ ret = Returned(<<>>)
    /\ hook = NoHook

NextYear ==
    \/ CallGroupByGranularity
    \/ Return

SpecYear == InitYear /\ [][NextYear]_vars

\* The bucket that holds reading r.
BucketOf(buckets, r) ==
    CHOOSE b \in 1..Len(buckets) : r \in Range(buckets[b].rows)

\* C27: in weekly mode two readings with valid timestamps are in the same
\* bucket exactly when they have the same year and the same
\* ceil(day of month / 7), whatever their month; a calendar year gives at
\* most 5 weekly buckets.
C27_WeekOfMonthAcrossMonths ==
    (call.fn = "groupByGranularity" /\ call.mode = "weekly" /\ AllValid(rows)) =>
        \A at \in {[i \in 1..Len(rows) |-> BucketOf(ret.val, rows[i])]} :
            /\ \A i, j \in 1..Len(rows) :
                  (at[i] = at[j]) <=>
                      /\ YearOf(rows[i].dt) = YearOf(rows[j].dt)
                      /\ WeekOfMonth(DateOf(rows[i].dt)) = WeekOfMonth(DateOf(rows[j].dt))
            /\ \A year \in {YearOf(rows[i].dt) : i \in 1..Len(rows)} :
                  Cardinality({at[i] : i \in {j \in 1..Len(rows) :
                                                YearOf(rows[j].dt) = year}}) <= 5

\* The 40 days from 2025-01-01: 1 January and 1 February share the first
\* bucket, and there are 5 buckets.
C27_Witness ==
    /\ call.fn = "groupByGranularity"
    /\ call.mode = "weekly"
    /\ Len(rows) = 40
    /\ rows[1].dt = At(0, 0)
    /\ rows[32].dt = At(31, 0)
    /\ Len(ret.val) = 5
    /\ rows[1] \in Range(ret.val[1].rows)
    /\ rows[32] \in Range(ret.val[1].rows)

(***************************************************************************)
(* The wind rose again: observations without a speed.                      *)
(***************************************************************************)
\* The observations of rs with a finite direction in sector k, with a
\* speed (has) or without one.
InSectorWithSpeed(rs, k, has) ==
    {i \in 1..Len(rs) :
        /\ rs[i].wind_dir_deg.k = "num"
        /\ InSector(rs[i].wind_dir_deg, k)
        /\ (rs[i].windspeed_ms.k = "num") = has}

\* The sampled speeds are finite numbers, null or missing.
SpeedsFiniteOrAbsent(rs) ==
    \A i \in 1..Len(rs) : rs[i].windspeed_ms.k \in {"num", "null", "undef"}

\* C28: in weighted mode an observation with a finite direction and a
\* missing or null speed adds 1 to its sector, as it does unweighted: a
\* weighted sector is the sum of the speeds of its observations that have
\* one plus the number of those that have none.
C28_WeightedCountsMissingSpeed ==
    (call.fn = "binWindDirections" /\ call.weighted /\ SpeedsFiniteOrAbsent(rows)) =>
        \A k \in 0..15 :
            ret.val.sectors[k + 1] =
                JsAdd(SpeedSum(rows, InSectorWithSpeed(rows, k, TRUE)),
                      Num(Cardinality(InSectorWithSpeed(rows, k, FALSE))))

\* North: speed 2 and a full turn with a null speed give 3; East: an
\* observation without a speed gives 1.
C28_Witness ==
    /\ call.fn = "binWindDirections"
    /\ call.weighted
    /\ rows = << WindReading(Num(0), Num(2)), WindReading(Num(360), Null),
                 WindReading(Num(90), Undefined) >>
    /\ ret.val.sectors[1] = Num(3)
    /\ ret.val.sectors[5] = Num(1)

(***************************************************************************)
(* useLiveLatest (frontend/src/hooks/useOptimizedApi.js).                  *)
(*                                                                         *)
(* hook holds the React state (data, isLoading, error, lastUpdated), the   *)
(* refs (abortControllerRef, intervalRef) and the requests issued so far.  *)
(* Request r owns controller r.  A value of data, error or lastUpdated is  *)
(* 0 for null and otherwise the request that set it.  A step is one task   *)
(* of the event loop, run to completion; the continuation of an await      *)
(* whose promise an abort() rejected is a job that runs after the task     *)
(* that called abort() and before any other task.  A setter called after   *)
(* the unmount is recorded as well.                                        *)
(***************************************************************************)
\* useState(null), useState(true), useState(null), useState(null);
\* useRef(null) twice; no effect has run yet.
\* error === null
NoError == [from |-> 0, message |-> "null"]

LiveLatestCreated ==
    [kind |-> "useLiveLatest", phase |-> "created",
     data |-> 0, isLoading |-> TRUE, error |-> NoError, lastUpdated |-> 0,
     abortControllerRef |-> 0, intervalRef |-> FALSE,
     requests |-> <<>>, jobs |-> <<>>]

\* The awaited fetch or response.json() of request r is pending.
InFlight(h, r) == h.requests[r].stage \in {"fetch", "json"}

\* abortControllerRef.current.abort(): the signal is aborted, and the
\* pending promise of its request, if any, rejects with an AbortError.
Abort(h) ==
    IF h.abortControllerRef = 0 THEN h
    ELSE LET c == h.abortControllerRef
         IN  [h EXCEPT !.requests[c].aborted = TRUE,
                       !.jobs = IF InFlight(h, c) /\ ~h.requests[c].aborted
                                THEN Append(@, c) ELSE @]

\* The body shared by refresh and the interval callback, up to the first
\* await of fetchData:
\*   abortControllerRef.current = new AbortController();
\*   setIsLoading(true); fetchData(signal) -> setError(null); fetch(...)
StartRequest(h, by) ==
    LET n == Len(h.requests) + 1
    IN  [h EXCEPT !.abortControllerRef = n,
                  !.isLoading = TRUE,
                  !.error = NoError,
                  !.requests = Append(@, [by |-> by, stage |-> "fetch",
                                          aborted |-> FALSE])]

\* A new request that leaves the previous one running.
IssueRequestWithoutAbort(h, by) == StartRequest(h, by)

\* if (abortControllerRef.current) abortControllerRef.current.abort(); ...
IssueRequest(h, by) == StartRequest(Abort(h), by)

\* The hook does nothing but this step.
HookStep(h) ==
    /\ hook.kind = "useLiveLatest"
    /\ hook' = h
    /\ UNCHANGED <<rows, call, ret>>

\* No job is waiting: the event loop takes the next task.
Idle == hook.jobs = <<>>

\* useEffect: refresh(); intervalRef.current = setInterval(...)
Mount ==
    /\ hook.phase = "created"
    /\ HookStep([IssueRequest(hook, "refresh") EXCEPT !.phase = "mounted", !.intervalRef = TRUE])

\* The page calls refresh().
Refresh ==
    /\ hook.phase = "mounted" /\ Idle
    /\ Len(hook.requests) < MaxRequests
    /\ HookStep(IssueRequest(hook, "refresh"))

\* The interval fires.
PollTick ==
    /\ hook.intervalRef /\ Idle
    /\ Len(hook.requests) < MaxRequests
    /\ HookStep(IssueRequest(hook, "interval"))

\* The cleanup of the effect: clearInterval(...); abort().
Unmount ==
    /\ hook.phase = "mounted" /\ Idle
    /\ HookStep([Abort(hook) EXCEPT !.phase = "unmounted", !.intervalRef = FALSE])

\* catch (err) { if (err.name === 'AbortError') return; } finally { setIsLoading(false); }
AbortErrorCaught ==
    /\ hook.kind = "useLiveLatest"
    /\ hook.jobs # <<>>
    /\ HookStep([hook EXCEPT !.jobs = Tail(@),
                             !.requests[Head(hook.jobs)].stage = "done",
                             !.isLoading = FALSE])

\* Request r waits at the given await and was not aborted.
Awaiting(r, stage) ==
    /\ hook.kind = "useLiveLatest" /\ Idle
    /\ r \in 1..Len(hook.requests)
    /\ hook.requests[r].stage = stage
    /\ ~hook.requests[r].aborted

\* setError(message); setData(null); finally setIsLoading(false)
Failed(h, r, message) ==
    [h EXCEPT !.error = [from |-> r, message |-> message],
              !.data = 0, !.isLoading = FALSE,
              !.requests[r].stage = "done"]

\* fetch resolves: with response.ok the function goes on to response.json().
FetchResolves ==
    \E r \in 1..MaxRequests, ok \in BOOLEAN :
        /\ Awaiting(r, "fetch")
        /\ HookStep(IF ok THEN [hook EXCEPT !.requests[r].stage = "json"]
                    ELSE Failed(hook, r, "HTTP error! status"))

\* fetch rejects (the network failed).
FetchRejects ==
    \E r \in 1..MaxRequests :
        /\ Awaiting(r, "fetch")
        /\ HookStep(Failed(hook, r, "Could not fetch: Failed to fetch"))

\* setData(result.data || []); setLastUpdated(new Date()); finally ...
JsonResolves ==
    \E r \in 1..MaxRequests :
        /\ Awaiting(r, "json")
        /\ HookStep([hook EXCEPT !.data = r, !.lastUpdated = r, !.isLoading = FALSE,
                                 !.requests[r].stage = "done"])

\* response.json() rejects (the body is no JSON).
JsonRejects ==
    \E r \in 1..MaxRequests :
        /\ Awaiting(r, "json")
        /\ HookStep(Failed(hook, r, "Could not fetch: Unexpected token"))

InitLiveLatest ==
    /\ rows = <<>>
    /\ call = NoCall
    /\ ret = Returned(<<>>)
    /\ hook = LiveLatestCreated

NextLiveLatest ==
    \/ Mount
    \/ Refresh
    \/ PollTick
    \/ Unmount
    \/ AbortErrorCaught
    \/ FetchResolves
    \/ FetchRejects
    \/ JsonResolves
    \/ JsonRejects

SpecLiveLatest == InitLiveLatest /\ [][NextLiveLatest]_vars

(***************************************************************************)
(* Claims about useLiveLatest.                                             *)
(***************************************************************************)
\* The requests in flight whose signal is not aborted.
LiveRequests(h) ==
    {r \in 1..Len(h.requests) : InFlight(h, r) /\ ~h.requests[r].aborted}

\* C21: a new request, from refresh or from the interval, first aborts the
\* one issued before it, so at most one request with a live signal is in
\* flight; the unmount clears the interval and aborts the request in
\* flight; after it no request starts and none sets data, error or
\* lastUpdated.
C21_OneLiveRequestNoneAfterUnmount ==
    [][ /\ Cardinality(LiveRequests(hook')) <= 1
        /\ Len(hook'.requests) > Len(hook.requests) =>
              \A r \in 1..Len(hook.requests) : hook'.requests[r].aborted
        /\ hook'.phase = "unmounted" =>
              /\ ~hook'.intervalRef
              /\ LiveRequests(hook') = {}
        /\ hook.phase = "unmounted" =>
              /\ hook'.phase = "unmounted"
              /\ Len(hook'.requests) = Len(hook.requests)
              /\ hook'.data = hook.data
              /\ hook'.error = hook.error
              /\ hook'.lastUpdated = hook.lastUpdated ]_vars

\* The first request delivered its data; the interval started a second one,
\* which the unmount aborted before its response: the data of the first is
\* still there.
C21_Witness ==
    /\ hook.kind = "useLiveLatest"
    /\ hook.phase = "unmounted"
    /\ Len(hook.requests) = 2
    /\ hook.requests[2].by = "interval"
    /\ hook.requests[2].aborted
    /\ hook.requests[2].stage = "done"
    /\ hook.data = 1 /\ hook.lastUpdated = 1
    /\ hook.error = NoError

\* C30: the handler of a request that a newer request aborted changes
\* nothing: data, error, lastUpdated and isLoading stay, and isLoading is
\* true while the newer request is in flight.
C30_SupersededChangesNothing ==
    [][ (hook.phase = "mounted" /\ Len(hook'.jobs) < Len(hook.jobs)) =>
            /\ hook'.data = hook.data
            /\ hook'.error = hook.error
            /\ hook'.lastUpdated = hook.lastUpdated
            /\ hook'.isLoading = hook.isLoading
            /\ LiveRequests(hook') # {} => hook'.isLoading ]_vars

(***************************************************************************)
(* useStationLive and useStationArchive (src/hooks/useStationLive.js,      *)
(* useStationArchive.js).  hook holds the state of one of the two hooks:   *)
(* the parameters of the last render, the state it exposes, and every      *)
(* request it issued with the parameters its closure captured.  Neither    *)
(* hook holds a controller or a request number: a pending request is       *)
(* answered whenever the network answers it.  What a request delivers is   *)
(* recorded as the number of the request it came from.                     *)
(***************************************************************************)
\* resolveUrl / resolveArchiveUrl: null for an id that is no station.
KnownStation(id) == id \in {"ahm", "udi", "mtabu"}

\* The ids the route hands to the hooks.
StationIds == {"ahm", "udi", "xyz"}

\* What the page hands to useStationLive: the id of the route.
LiveSelections == [id : StationIds, range : {"none"}, granularity : {"none"}]

\* What the page hands to useStationArchive: the id of the route, the range
\* resolved from the filter mode and the granularity of the filter.
ArchiveSelections ==
    { [id |-> "ahm", range |-> "monthly", granularity |-> "daily"],
      [id |-> "udi", range |-> "monthly", granularity |-> "daily"],
      [id |-> "ahm", range |-> "weekly", granularity |-> "daily"],
      [id |-> "ahm", range |-> "monthly", granularity |-> "weekly"],
      [id |-> "xyz", range |-> "monthly", granularity |-> "daily"] }

StationLiveCreated(sel) ==
    [kind |-> "useStationLive", phase |-> "created", params |-> sel,
     loading |-> TRUE, error |-> NoError, lastUpdated |-> 0, metrics |-> 0,
     intervalRef |-> FALSE, requests |-> <<>>]

StationArchiveCreated(sel) ==
    [kind |-> "useStationArchive", phase |-> "created", params |-> sel,
     loading |-> TRUE, error |-> NoError, charts |-> 0, rows |-> 0,
     requests |-> <<>>]

\* The request a call of fetchData or load leaves behind.
Request(sel, silent, stage) ==
    [params |-> sel, silent |-> silent, stage |-> stage]

\* useStationLive: catch (e) { setError(e.message); setMetrics(null); }
\* finally { if (!silent) setLoading(false); } of request r.
LiveFailed(h, r, message) ==
    [h EXCEPT !.error = [from |-> r, message |-> message],
              !.metrics = 0,
              !.loading = IF h.requests[r].silent THEN @ ELSE FALSE,
              !.requests[r].stage = "done"]

\* fetchData(silent) up to its first await; an unknown id throws before it.
fetchData(h, silent) ==
    LET n     == Len(h.requests) + 1
        begun == [h EXCEPT !.loading = IF silent THEN @ ELSE TRUE,
                           !.error = NoError,
                           !.requests = Append(@, Request(h.params, silent, "fetch"))]
    IN  IF KnownStation(h.params.id) THEN begun
        ELSE LiveFailed(begun, n, "Unknown station id")

\* useStationArchive: catch (e) { setError(e.message); setCharts(null);
\* setRows([]); } finally { setLoading(false); } of request r.
ArchiveFailed(h, r, message) ==
    [h EXCEPT !.error = [from |-> r, message |-> message],
              !.charts = 0, !.rows = 0, !.loading = FALSE,
              !.requests[r].stage = "done"]

\* load() up to its await of Papa.parse; an unknown id throws before it.
load(h) ==
    LET n     == Len(h.requests) + 1
        begun == [h EXCEPT !.loading = TRUE,
                           !.error = NoError,
                           !.requests = Append(@, Request(h.params, FALSE, "parse"))]
    IN  IF KnownStation(h.params.id) THEN begun
        ELSE ArchiveFailed(begun, n, "Unknown station id")

\* One step of a station hook.
StationStep(h) ==
    /\ hook' = h
    /\ UNCHANGED <<rows, call, ret>>

\* useStationLive, first run of the effect:
\*   fetchData(false); const idt = setInterval(() => fetchData(true), 30000)
StationLiveMount ==
    /\ hook.kind = "useStationLive" /\ hook.phase = "created"
    /\ StationStep([fetchData(hook, FALSE) EXCEPT !.phase = "mounted",
                                                 !.intervalRef = TRUE])

\* The route changes the id: fetchData is a new callback, the cleanup clears
\* the interval and the effect runs again.
StationIdChanges ==
    \E id \in StationIds :
        /\ hook.kind = "useStationLive" /\ hook.phase = "mounted"
        /\ Len(hook.requests) < MaxRequests
        /\ id # hook.params.id
        /\ StationStep(fetchData([hook EXCEPT !.params.id = id], FALSE))

\* The interval fires: fetchData(true).
StationPollTick ==
    /\ hook.kind = "useStationLive" /\ hook.intervalRef
    /\ Len(hook.requests) < MaxRequests
    /\ StationStep(fetchData(hook, TRUE))

\* A caller uses the returned refresh, which is fetchData itself.
StationRefresh ==
    \E silent \in BOOLEAN :
        /\ hook.kind = "useStationLive" /\ hook.phase = "mounted"
        /\ Len(hook.requests) < MaxRequests
        /\ StationStep(fetchData(hook, silent))

\* Request r of the hook of this kind waits at the given await.
StationAwaiting(kind, r, stage) ==
    /\ hook.kind = kind
    /\ r \in 1..Len(hook.requests)
    /\ hook.requests[r].stage = stage

\* await fetch(url): with res.ok the function goes on to res.text().
StationFetchResolves ==
    \E r \in 1..MaxRequests, ok \in BOOLEAN :
        /\ StationAwaiting("useStationLive", r, "fetch")
        /\ StationStep(IF ok THEN [hook EXCEPT !.requests[r].stage = "text"]
                       ELSE LiveFailed(hook, r, "Failed to fetch url: status"))

\* fetch rejects.
StationFetchRejects ==
    \E r \in 1..MaxRequests :
        /\ StationAwaiting("useStationLive", r, "fetch")
        /\ StationStep(LiveFailed(hook, r, "Failed to fetch"))

\* await res.text(); parseLatestLine(text) gives metrics or an error.
StationTextResolves ==
    \E r \in 1..MaxRequests, parsed \in BOOLEAN :
        /\ StationAwaiting("useStationLive", r, "text")
        /\ StationStep(IF parsed
                       THEN [hook EXCEPT !.metrics = r, !.lastUpdated = r,
                                         !.loading = IF hook.requests[r].silent
                                                     THEN @ ELSE FALSE,
                                         !.requests[r].stage = "done"]
                       ELSE LiveFailed(hook, r, "No live data found"))

\* useStationArchive, first run of the effect: load().
StationArchiveMount ==
    /\ hook.kind = "useStationArchive" /\ hook.phase = "created"
    /\ StationStep([load(hook) EXCEPT !.phase = "mounted"])

\* The route or the filter changes: load is a new callback and the effect
\* calls it.
ArchiveSelectionChanges ==
    \E sel \in ArchiveSelections :
        /\ hook.kind = "useStationArchive" /\ hook.phase = "mounted"
        /\ Len(hook.requests) < MaxRequests
        /\ sel # hook.params
        /\ StationStep(load([hook EXCEPT !.params = sel]))

\* Papa.parse completes: setRows(inRange); setCharts({...}); finally.
ArchiveParseCompletes ==
    \E r \in 1..MaxRequests :
        /\ StationAwaiting("useStationArchive", r, "parse")
        /\ StationStep([hook EXCEPT !.rows = r, !.charts = r, !.loading = FALSE,
                                   !.requests[r].stage = "done"])

\* Papa.parse reports an error.
ArchiveParseFails ==
    \E r \in 1..MaxRequests :
        /\ StationAwaiting("useStationArchive", r, "parse")
        /\ StationStep(ArchiveFailed(hook, r, "Archive load failed"))

InitStation ==
    /\ rows = <<>>
    /\ call = NoCall
    /\ ret = Returned(<<>>)
    /\ hook \in {StationLiveCreated(sel) : sel \in LiveSelections}
                \cup {StationArchiveCreated(sel) : sel \in ArchiveSelections}

NextStation ==
    \/ StationLiveMount
    \/ StationIdChanges
    \/ StationPollTick
    \/ StationRefresh
    \/ StationFetchResolves
    \/ StationFetchRejects
    \/ StationTextResolves
    \/ StationArchiveMount
    \/ ArchiveSelectionChanges
    \/ ArchiveParseCompletes
    \/ ArchiveParseFails

SpecStation == InitStation /\ [][NextStation]_vars

\* The metrics of useStationLive, the charts of useStationArchive.
Shown(h) == IF h.kind = "useStationLive" THEN h.metrics ELSE h.charts

\* The requests of h that have run to their end.
Done(h) == {r \in 1..Len(h.requests) : h.requests[r].stage = "done"}

\* C29: the response of a request that ends after a request issued later
\* has ended -- an earlier poll, or a request for the station id, range or
\* granularity selected before -- leaves metrics, charts and error as the
\* later request set them.
C29_LateResponseOverwritesNothing ==
    [][ \A r \in Done(hook') \ Done(hook) :
            (\E later \in Done(hook) : later > r) =>
                /\ Shown(hook') = Shown(hook)
                /\ hook'.error = hook.error ]_vars

====
